---- MODULE Spec2Model ----
(***************************************************************************)
(* A model of the CommandQueue execution engine of cmdq                    *)
(* (src/src/command-queue.ts): the queue of command requests, the run loop *)
(* with its gate / pipe-deferral / compiled-execution branches, the        *)
(* continue-or-halt policy, the result store and its accessors.            *)
(*                                                                         *)
(* Command texts and outputs are strings; a compiled pipeline is built by  *)
(* string concatenation exactly as handleExecCommand builds it.            *)
(* The loop index i is the 0-based index of the source; sequences here are *)
(* 1-based, so the request at position i is commands[i + 1].               *)
(***************************************************************************)
EXTENDS Integers, Sequences, FiniteSets, TLC

VARIABLES
    config,         \* this.config
    commands,       \* this.commands
    results,        \* this.results
    cannedResults,  \* this._cannedResults
    fs,             \* the content of the dry-run results file
    pc,             \* position of the caller: "idle", or inside run(): "loop", "halt";
                    \* "raised" once an exception has left a method of the queue
    i,              \* the loop index of run()
    lastResult,     \* the local lastResult of run(): <<>> is undefined, <<r>> a result
    nextId,         \* number of identifiers handed out by randomString()
    globalConfig,   \* the process-wide default configuration (context.ts)
    caller,         \* environment: the option values the caller uses and the
                    \* results the shell reports in this behaviour
    lastQueue,      \* history: the queue as it was when the latest run() began
    execLog,        \* history: the calls of exec() made by the latest run()
    live,           \* history: <<>>, or <<l>> for the latest live run() that had a
                    \* results file configured: its queue, its results and
                    \* whether its save succeeded
    saved           \* history: <<>>, or <<c>> for the caller's latest call of
                    \* save(): its append argument and what it returned

vars == <<config, commands, results, cannedResults, fs, pc, i, lastResult,
          nextId, caller, globalConfig, lastQueue, execLog, live, saved>>

-----------------------------------------------------------------------------
(* Bounds of the model. *)

\* The number of requests a caller queues in the lifetime of one queue object.
MaxAdds == 3

-----------------------------------------------------------------------------
(* Types (src/src/types.ts). *)

PipeType == {"none", "stdout", "stderr", "both"}

\* CommandInput.pipe is optional: "undefined" stands for the absent field.
PipeOption == PipeType \cup {"undefined"}

\* The command texts callers queue: the request queued at position n of a
\* queue has the text CmdTexts[n].
CmdTexts == <<"A", "B", "C", "D", "E">>

\* The configured results file: NoFile stands for dryRunResultsFile undefined.
NoFile == "undefined"

\* The path callers configure as dryRunResultsFile and pass to save().
ResultsFile == "results.json"

\* What spawnSync can do for a command: return the child's stdout, stderr and
\* exit status (status is <<n>>, or <<>> for null, when a signal ended the
\* child), or throw while spawning or reading the output (thrown is <<m>> for
\* an Error with the message m, <<>> for a value that is no Error).
\* A clean success, a failure with a message, a success that wrote to stderr,
\* and a non-zero exit without a message.
ProcOk == [out |-> "o", err |-> "", status |-> <<0>>]

ProcFail == [out |-> "", err |-> "e", status |-> <<1>>]

\* A failure with another message and exit status.
ProcFailOther == [out |-> "", err |-> "f", status |-> <<2>>]

ProcResults ==
    { ProcOk, ProcFail,
      [out |-> "o", err |-> "e", status |-> <<0>>],
      [out |-> "",  err |-> "",  status |-> <<1>>] }

\* Spawning throws an Error.
SpawnFailure == [thrown |-> <<"spawn failed">>]

\* Children ended by a signal, and throws of an Error without a message and
\* of a value that is no Error.
Signalled ==
    { [out |-> "o", err |-> "",  status |-> <<>>],
      [out |-> "",  err |-> "e", status |-> <<>>] }

OddThrows == { [thrown |-> <<"">>], [thrown |-> <<>>] }

\* The gates callers pass as pre ("undefined" is no gate): never is
\* () => false, ifPrevOk is (r) => !r || r.result.success.
GateKinds == {"undefined", "never", "ifPrevOk"}

\* The gates written to the declared parameter type CommandQueueResult | null:
\* ifNullOrOk is (r) => r === null || r.result.success.
NullGates == {"undefined", "ifNullOrOk"}

\* The transforms callers pass as post ("undefined" is no transform): flip
\* returns the result with its outcome's success negated.
TransformKinds == {"undefined", "flip"}

\* Transforms that rewrite the output: mark returns the result with a "!"
\* appended to its out.
OutputTransforms == {"undefined", "mark"}

\* Transforms that return a new object: rebuild returns an object with the
\* fields of CommandQueueResult (id, command, out, err, stat, result) copied
\* from the result, and no other field, so that its piped and skipped are
\* undefined. An undefined skipped reads as false wherever the code tests it.
ObjectTransforms == {"undefined", "rebuild"}

EmptyMap == [k \in {} |-> k]

\* Callers and shells. A caller is the set of option values it passes to
\* add/cmd/pipe; proc is the set of results its commands can produce.
\* PolicyCaller sets continueOnError per request, on plain, gated and
\* stdout-piped requests; HookCaller uses every gate and transform, on plain
\* and stdout-piped requests; PipeCaller uses every pipe mode, and gates;
\* ShellCaller queues plain requests whose processes report every kind of
\* result, a failure to spawn included.
PolicyCaller ==
    [ coe  |-> {"undefined", "true", "false"},
      pipe |-> {"undefined", "stdout"},
      pre  |-> {"undefined", "never"},
      post |-> {"undefined"},
      proc |-> {ProcOk, ProcFail} ]

HookCaller ==
    [ coe  |-> {"undefined"},
      pipe |-> {"undefined", "stdout"},
      pre  |-> GateKinds,
      post |-> TransformKinds,
      proc |-> {ProcOk, ProcFail} ]

PipeCaller ==
    [ coe  |-> {"undefined"},
      pipe |-> PipeOption,
      pre  |-> {"undefined", "never"},
      post |-> {"undefined"},
      proc |-> {ProcOk, ProcFail} ]

ShellCaller ==
    [ coe  |-> {"undefined"},
      pipe |-> {"undefined"},
      pre  |-> {"undefined"},
      post |-> {"undefined"},
      proc |-> ProcResults \cup {SpawnFailure} ]

Callers == {PolicyCaller, HookCaller, PipeCaller, ShellCaller}

\* Callers that record and replay. RecordCaller queues plain requests with
\* output transforms, all of them with the text "A" (texts);
\* PlaceholderCaller queues plain, gated and stdout-piped requests.
RecordCaller ==
    [ coe   |-> {"undefined"},
      pipe  |-> {"undefined"},
      pre   |-> {"undefined"},
      post  |-> OutputTransforms,
      proc  |-> {ProcOk, ProcFail},
      texts |-> {"A"} ]

PlaceholderCaller ==
    [ coe  |-> {"undefined"},
      pipe |-> {"undefined", "stdout"},
      pre  |-> {"undefined", "never"},
      post |-> {"undefined"},
      proc |-> {ProcOk, ProcFail} ]

RecordCallers == {RecordCaller, PlaceholderCaller}

\* A caller whose transforms return new objects, on plain, gated and
\* stdout-piped requests.
RebuildCaller ==
    [ coe  |-> {"undefined", "true"},
      pipe |-> {"undefined", "stdout"},
      pre  |-> {"undefined", "never"},
      post |-> ObjectTransforms,
      proc |-> {ProcOk, ProcFail} ]

\* The methods caller c queues its requests with: all of them, unless the
\* caller keeps to some.
Methods(c) == IF "methods" \in DOMAIN c THEN c.methods ELSE {"add", "cmd", "pipe"}

\* The texts caller c may queue at position n.
CommandTexts(c, n) ==
    IF "texts" \in DOMAIN c THEN c.texts ELSE {CmdTexts[n]}

\* Results stored in a results file by earlier recordings: one for the text
\* "A", one for the pipeline "A | B", one for "B", one for a command no
\* queue here runs.
Stored(command, out, err, stat) ==
    [ id |-> 0, command |-> command, piped |-> "none", skipped |-> FALSE,
      out |-> out, err |-> err, stat |-> stat,
      result |-> [success |-> ~(stat # 0 /\ err # ""), message |-> err] ]

OldEntries ==
    [ c \in {"A", "A | B", "B", "Z"} |->
        CASE c = "A"     -> Stored(c, "x", "", 0)
          [] c = "A | B" -> Stored(c, "y", "w", 0)
          [] c = "B"     -> Stored(c, "z", "v", 1)
          [] c = "Z"     -> Stored(c, "u", "", 0) ]

-----------------------------------------------------------------------------
(* Pure helpers of the engine. *)

\* add(): the CommandInput built from the configuration default and the
\* caller's options (a field of the options, when given, overrides the default).
\* optCoe is "undefined" or a boolean given by the caller.
NewInput(cfg, id, command, optCoe, optPipe, optPre, optPost) ==
    [ continueOnError |-> IF optCoe = "undefined"
                          THEN cfg.continueOnError
                          ELSE (optCoe = "true"),
      id      |-> id,
      command |-> command,
      pipe    |-> optPipe,
      pre     |-> optPre,
      post    |-> optPost ]

\* preHandler(): the queue-level gate of the base class.
preHandler(prev) == TRUE

\* Mutant: only the stdout mode defers the request before.
shouldPipeCommand_StdoutOnly(cmds, n) ==
    /\ n <= Len(cmds)
    /\ cmds[n].pipe = "stdout"

\* shouldPipeCommand(nextCommand); cmds[n] is nextCommand when it exists.
shouldPipeCommand(cmds, n) ==
    /\ n <= Len(cmds)
    /\ cmds[n].pipe # "undefined"
    /\ cmds[n].pipe # "none"

\* command.pre(lastResult) throws: lastResult is passed as it is, undefined
\* for the first request, and ifNullOrOk reads a property of it.
GateThrows(command, prev) ==
    command.pre = "ifNullOrOk" /\ prev = <<>>

\* command.pre(lastResult), for a gate of the given kind: whether it returns
\* true (it does not when it throws).
ApplyPre(kind, prev) ==
    CASE kind = "never"      -> FALSE
      [] kind = "ifPrevOk"   -> prev = <<>> \/ prev[1].result.success
      [] kind = "ifNullOrOk" -> prev # <<>> /\ prev[1].result.success

\* Mutant: the request's own gate is not consulted.
shouldSkipCommand_NoGate(command, prev) ==
    ~preHandler(prev)

\* shouldSkipCommand()
shouldSkipCommand(command, prev) ==
    \/ ~preHandler(prev)
    \/ (command.pre # "undefined" /\ ~ApplyPre(command.pre, prev))

\* Mutant: the operators of stderr and both exchanged.
PipeOperator_Swapped(piped) ==
    CASE piped = "stdout" -> " | "
      [] piped = "stderr" -> " 2>&1 | "
      [] piped = "both"   -> " 2>&1 1>/dev/null | "

\* The join operator of handleExecCommand's switch on prevResult.piped.
PipeOperator(piped) ==
    CASE piped = "stdout" -> " | "
      [] piped = "stderr" -> " 2>&1 1>/dev/null | "
      [] piped = "both"   -> " 2>&1 | "

\* Mutant: the walk goes on to the start of the store, past the results that
\* are not piped away.
RECURSIVE PipeChainWalk_WholeStore(_, _, _, _)
PipeChainWalk_WholeStore(res, j, pipeChain, stages) ==
    IF j < 0 THEN [text |-> pipeChain, stages |-> stages, thrown |-> FALSE]
    ELSE LET prevResult == res[j + 1] IN
         IF prevResult.piped \in {"stdout", "stderr", "both"}
         THEN PipeChainWalk_WholeStore(res, j - 1,
                  prevResult.command \o PipeOperator(prevResult.piped) \o pipeChain,
                  <<prevResult.id>> \o stages)
         ELSE PipeChainWalk_WholeStore(res, j - 1, pipeChain, stages)

\* Mutant: the walk steps over skipped results instead of stopping at them.
RECURSIVE PipeChainWalk_PastSkipped(_, _, _, _)
PipeChainWalk_PastSkipped(res, j, pipeChain, stages) ==
    IF j < 0 THEN [text |-> pipeChain, stages |-> stages, thrown |-> FALSE]
    ELSE LET prevResult == res[j + 1] IN
         IF prevResult.skipped
         THEN PipeChainWalk_PastSkipped(res, j - 1, pipeChain, stages)
         ELSE IF prevResult.piped # "none"
         THEN PipeChainWalk_PastSkipped(res, j - 1,
                  prevResult.command \o PipeOperator(prevResult.piped) \o pipeChain,
                  <<prevResult.id>> \o stages)
         ELSE [text |-> pipeChain, stages |-> stages, thrown |-> FALSE]

\* Mutant: the walk looks at the immediately preceding result only.
PipeChainWalk_OneStep(res, j, pipeChain, stages) ==
    IF j < 0 THEN [text |-> pipeChain, stages |-> stages, thrown |-> FALSE]
    ELSE LET prevResult == res[j + 1] IN
         IF prevResult.piped # "none"
         THEN [text |-> prevResult.command \o PipeOperator(prevResult.piped)
                           \o pipeChain,
               stages |-> <<prevResult.id>> \o stages, thrown |-> FALSE]
         ELSE [text |-> pipeChain, stages |-> stages, thrown |-> FALSE]

\* The backward walk of handleExecCommand: j is the 0-based index of the
\* result looked at, pipeChain the text built so far. stages is history: the
\* identifiers of the requests whose text the walk has put into pipeChain.
\* thrown tells that the switch reached its default, which throws
\* 'Invalid pipe type'.
RECURSIVE PipeChainWalk(_, _, _, _)
PipeChainWalk(res, j, pipeChain, stages) ==
    IF j < 0 THEN [text |-> pipeChain, stages |-> stages, thrown |-> FALSE]
    ELSE LET prevResult == res[j + 1] IN
         IF prevResult.piped # "none"
         THEN IF prevResult.piped \in {"stdout", "stderr", "both"}
              THEN PipeChainWalk(res, j - 1,
                       prevResult.command \o PipeOperator(prevResult.piped) \o pipeChain,
                       <<prevResult.id>> \o stages)
              ELSE [text |-> pipeChain, stages |-> stages, thrown |-> TRUE]
         ELSE [text |-> pipeChain, stages |-> stages, thrown |-> FALSE]

\* Mutant: every non-zero exit status is a failure.
postHandler_ByStatus(result) ==
    [result EXCEPT !.result =
        [success |-> result.stat = 0,
         message |-> result.err]]

\* postHandler(): the outcome classification.
postHandler(result) ==
    [result EXCEPT !.result =
        [success |-> ~(result.stat # 0 /\ result.err # ""),
         message |-> result.err]]

\* command.post(result), for a transform of the given kind.
ApplyPost(kind, result) ==
    CASE kind = "flip" -> [result EXCEPT !.result.success = ~result.result.success]
      [] kind = "mark" -> [result EXCEPT !.out = result.out \o "!"]
      [] kind = "rebuild" -> [result EXCEPT !.piped = "undefined"]

\* Mutant: the canned result is looked up under the request's own text.
CannedKey_OwnText(command, pipeChain) == command.command

\* handleExecCommand(): the text passed to exec(), under which a dry run
\* looks up the canned result.
CannedKey(command, pipeChain) == pipeChain

\* Mutant: the dry-run branch returns no stderr.
DryExec_DropsStderr(canned, cmd) ==
    IF cmd \in DOMAIN canned
    THEN [out |-> canned[cmd].out, err |-> "", stat |-> canned[cmd].stat]
    ELSE [out |-> "", err |-> "", stat |-> 0]

\* exec(), dry-run branch: the canned result under the compiled text, if any.
DryExec(canned, cmd) ==
    IF cmd \in DOMAIN canned
    THEN [out |-> canned[cmd].out, err |-> canned[cmd].err, stat |-> canned[cmd].stat]
    ELSE [out |-> "", err |-> "", stat |-> 0]

\* exec(), live branch: the input selected from lastResult by the request's own
\* pipe mode ("" is no input: the code passes undefined for an empty string).
ExecInput(prev, pipe) ==
    IF prev # <<>> /\ pipe # "undefined"
    THEN CASE pipe = "stdout" -> prev[1].out
           [] pipe = "stderr" -> prev[1].err
           [] pipe = "both"   -> prev[1].out \o prev[1].err
           [] OTHER           -> ""
    ELSE ""

\* Mutant: a throw is converted into an exit status of 0.
ExecReturn_ThrownExitsZero(raw) ==
    IF "thrown" \in DOMAIN raw
    THEN [out |-> "",
          err |-> IF raw.thrown # <<>> THEN raw.thrown[1] ELSE "Unknown error",
          stat |-> 0]
    ELSE [out |-> raw.out, err |-> raw.err,
          stat |-> IF raw.status # <<>> THEN raw.status[1] ELSE 0]

\* exec(), live branch: what it returns for what spawnSync did. A throw is
\* caught and becomes ['', err.message, 1], or ['', 'Unknown error', 1] for a
\* value that is no Error; a null status becomes 0.
ExecReturn(raw) ==
    IF "thrown" \in DOMAIN raw
    THEN [out |-> "",
          err |-> IF raw.thrown # <<>> THEN raw.thrown[1] ELSE "Unknown error",
          stat |-> 1]
    ELSE [out |-> raw.out, err |-> raw.err,
          stat |-> IF raw.status # <<>> THEN raw.status[1] ELSE 0]

\* Mutant: the placeholder has a failed outcome.
PipedResult_Failed(command, nextCommand) ==
    [ id |-> command.id, command |-> command.command,
      piped |-> IF nextCommand.pipe = "undefined" THEN "none" ELSE nextCommand.pipe,
      skipped |-> FALSE, out |-> "", err |-> "", stat |-> 0,
      result |-> [success |-> FALSE, message |-> "Piped to following command"] ]

\* Mutant: the placeholder records the request's own pipe mode.
PipedResult_OwnMode(command, nextCommand) ==
    [ id |-> command.id, command |-> command.command,
      piped |-> IF command.pipe = "undefined" THEN "none" ELSE command.pipe,
      skipped |-> FALSE, out |-> "", err |-> "", stat |-> 0,
      result |-> [success |-> TRUE, message |-> "Piped to following command"] ]

\* handlePipedCommand(): the placeholder of a request deferred into a pipeline.
PipedResult(command, nextCommand) ==
    [ id |-> command.id, command |-> command.command,
      piped |-> IF nextCommand.pipe = "undefined" THEN "none" ELSE nextCommand.pipe,
      skipped |-> FALSE, out |-> "", err |-> "", stat |-> 0,
      result |-> [success |-> TRUE, message |-> "Piped to following command"] ]

\* handleSkippedCommand(): the placeholder of a request its gate rejected.
SkippedResult(command) ==
    [ id |-> command.id, command |-> command.command,
      piped |-> "none",
      skipped |-> TRUE, out |-> "", err |-> "", stat |-> 0,
      result |-> [success |-> FALSE, message |-> "Command skipped"] ]

\* handleExecCommand(): the result built from what exec() returned.
ExecResult(command, pipeChain, o) ==
    [ id |-> command.id, command |-> pipeChain,
      piped |-> "none",
      skipped |-> FALSE, out |-> o.out, err |-> o.err, stat |-> o.stat,
      result |-> [success |-> FALSE, message |-> ""] ]

\* Mutants of the decision: one that breaks on every failure, one that breaks
\* when the request does continue on error, one that also consults the
\* configuration's default.
Halts_OnAnyFailure(command, newLastResult) ==
    ~newLastResult.result.success

Halts_Inverted(command, newLastResult) ==
    ~newLastResult.result.success /\ command.continueOnError

Halts_UnlessDefault(command, newLastResult) ==
    ~newLastResult.result.success
        /\ ~(command.continueOnError \/ config.continueOnError)

\* The continue/halt decision at the end of a loop iteration of run().
Halts(command, newLastResult) ==
    ~newLastResult.result.success /\ ~command.continueOnError

\* Mutant: skipped and piped-away results are not written.
RECURSIVE SaveMerge_ExecutedOnly(_, _, _)
SaveMerge_ExecutedOnly(m, res, k) ==
    IF k > Len(res) THEN m
    ELSE IF res[k].skipped \/ res[k].piped # "none"
         THEN SaveMerge_ExecutedOnly(m, res, k + 1)
         ELSE SaveMerge_ExecutedOnly([c \in DOMAIN m \cup {res[k].command} |->
                                         IF c = res[k].command THEN res[k] ELSE m[c]],
                                     res, k + 1)

\* Mutant: an entry already in the mapping is not overwritten.
RECURSIVE SaveMerge_KeepsFirst(_, _, _)
SaveMerge_KeepsFirst(m, res, k) ==
    IF k > Len(res) THEN m
    ELSE SaveMerge_KeepsFirst([c \in DOMAIN m \cup {res[k].command} |->
                                  IF c \in DOMAIN m THEN m[c] ELSE res[k]],
                              res, k + 1)

\* save(): the mapping written to the file, keyed by result.command.
RECURSIVE SaveMerge(_, _, _)
SaveMerge(m, res, k) ==
    IF k > Len(res) THEN m
    ELSE SaveMerge([c \in DOMAIN m \cup {res[k].command} |->
                        IF c = res[k].command THEN res[k] ELSE m[c]],
                   res, k + 1)

\* A file: whether it exists, whether its content parses as JSON, whether it
\* can be written (or created), and the mapping its content parses to.
NoFileYet == [exists |-> FALSE, valid |-> TRUE, writable |-> TRUE, entries |-> EmptyMap]

\* Mutant: the catch of save() throws the error again.
saveReturn_Rethrows(thrown) == IF thrown THEN "raised" ELSE "true"

\* save(): how the call ends when its try block threw or not. The catch
\* traces the error and returns false.
saveReturn(thrown) == IF thrown THEN "false" ELSE "true"

\* Mutant: save() merges into the existing file whatever append says.
save_Appends(f, res, append) ==
    LET seed   == IF f.exists /\ f.valid THEN f.entries ELSE EmptyMap
        thrown == (f.exists /\ ~f.valid) \/ ~f.writable
    IN [ok |-> saveReturn(thrown) = "true",
        raised |-> saveReturn(thrown) = "raised",
        file |-> IF thrown THEN f
                 ELSE [exists |-> TRUE, valid |-> TRUE, writable |-> TRUE,
                       entries |-> SaveMerge(seed, res, 1)]]

\* Mutant: an existing file that does not parse is overwritten.
save_OverwritesUnparsed(f, res, append) ==
    LET reads  == append /\ f.exists
        seed   == IF reads /\ f.valid THEN f.entries ELSE EmptyMap
        thrown == ~f.writable
    IN [ok |-> saveReturn(thrown) = "true",
        raised |-> saveReturn(thrown) = "raised",
        file |-> IF thrown THEN f
                 ELSE [exists |-> TRUE, valid |-> TRUE, writable |-> TRUE,
                       entries |-> SaveMerge(seed, res, 1)]]

\* save(path, append) on the file f with the results res: whether it returns
\* true (ok) or raises, and the file afterwards. Reading an existing file that
\* does not parse, and writing a file that cannot be written, throw inside
\* the try block.
save(f, res, append) ==
    LET reads  == append /\ f.exists
        seed   == IF reads /\ f.valid THEN f.entries ELSE EmptyMap
        thrown == (reads /\ ~f.valid) \/ ~f.writable
    IN [ok |-> saveReturn(thrown) = "true",
        raised |-> saveReturn(thrown) = "raised",
        file |-> IF thrown THEN f
                 ELSE [exists |-> TRUE, valid |-> TRUE, writable |-> TRUE,
                       entries |-> SaveMerge(seed, res, 1)]]

\* The results file as callers can find it: absent, holding earlier
\* recordings, holding them but read-only, or holding text that does not parse.
OldFile == [exists |-> TRUE, valid |-> TRUE, writable |-> TRUE, entries |-> OldEntries]

ReadOnlyFile == [OldFile EXCEPT !.writable = FALSE]

CorruptFile == [exists |-> TRUE, valid |-> FALSE, writable |-> TRUE, entries |-> EmptyMap]

Files == {NoFileYet, OldFile, ReadOnlyFile, CorruptFile}

\* The constructor's load of the canned results from the file f.
LoadCanned(cfg, f) ==
    IF cfg.dryRun /\ cfg.dryRunResultsFile # NoFile /\ f.exists
    THEN f.entries
    ELSE EmptyMap

\* Mutant: a dry run spawns the command when no canned result is stored for it.
Spawns_OnMiss(cfg, canned, cmd) == ~cfg.dryRun \/ cmd \notin DOMAIN canned

\* exec(): whether a process is spawned for the command.
Spawns(cfg, canned, cmd) == ~cfg.dryRun

\* exec(): what a call can return (ret), with what spawnSync did when a
\* process was spawned (raw is <<r>>, or <<>> in a dry run); procs are the
\* things spawnSync can do, key is the text the canned results are looked up by.
exec(cfg, canned, procs, cmd, key) ==
    IF Spawns(cfg, canned, cmd)
    THEN {[raw |-> <<r>>, ret |-> ExecReturn(r)] : r \in procs}
    ELSE {[raw |-> <<>>, ret |-> DryExec(canned, key)]}

-----------------------------------------------------------------------------
(* Accessors of the result store. *)

\* Mutant: errors() has a key for every result with a non-zero exit status.
RECURSIVE errors_ByStatus(_, _, _)
errors_ByStatus(acc, res, k) ==
    IF k > Len(res) THEN acc
    ELSE IF res[k].stat # 0
         THEN errors_ByStatus([c \in DOMAIN acc \cup {res[k].command} |->
                                  IF c = res[k].command THEN res[k].result.message
                                  ELSE acc[c]],
                              res, k + 1)
         ELSE errors_ByStatus(acc, res, k + 1)

\* errors(): the reduce over the results, from the accumulator acc and the
\* result at position k on.
RECURSIVE errors(_, _, _)
errors(acc, res, k) ==
    IF k > Len(res) THEN acc
    ELSE IF ~res[k].result.success
         THEN errors([c \in DOMAIN acc \cup {res[k].command} |->
                         IF c = res[k].command THEN res[k].result.message
                         ELSE acc[c]],
                     res, k + 1)
         ELSE errors(acc, res, k + 1)

success(res) == \A k \in 1..Len(res) : res[k].result.success

hasErrors(res) == \E k \in 1..Len(res) : ~res[k].result.success

\* The loop of first(), from the 0-based index k: <<>> is undefined.
RECURSIVE firstFrom(_, _)
firstFrom(res, k) ==
    IF k >= Len(res) THEN <<>>
    ELSE IF ~res[k + 1].skipped THEN <<res[k + 1]>>
    ELSE firstFrom(res, k + 1)

first(res) == firstFrom(res, 0)

\* The loop of last(), from the 0-based index k: <<>> is undefined.
RECURSIVE lastFrom(_, _)
lastFrom(res, k) ==
    IF k < 0 THEN <<>>
    ELSE IF ~res[k + 1].skipped THEN <<res[k + 1]>>
    ELSE lastFrom(res, k - 1)

\* Mutant: the last result, skipped or not.
last_Any(res) == IF Len(res) = 0 THEN <<>> ELSE <<res[Len(res)]>>

last(res) == lastFrom(res, Len(res) - 1)

-----------------------------------------------------------------------------
(* The state machine. *)

\* The process-wide default configuration as the module defines it.
defaultGlobalConfig ==
    [workingDirectory |-> ".", continueOnError |-> FALSE, dryRun |-> FALSE,
     dryRunResultsFile |-> NoFile]

\* new CommandQueue(config), for a configuration from cfgs used by caller c,
\* when the results file is one of files. The constructor throws when it has
\* to load a file that does not parse: no queue is constructed then.
InitQueue(cfgs, c, files) ==
    /\ config \in cfgs
    /\ caller = c
    /\ fs \in files
    /\ ~(config.dryRun /\ config.dryRunResultsFile # NoFile /\ fs.exists /\ ~fs.valid)
    /\ commands = <<>>
    /\ results = <<>>
    /\ cannedResults = LoadCanned(config, fs)
    /\ pc = "idle"
    /\ i = 0
    /\ lastResult = <<>>
    /\ nextId = 0
    /\ lastQueue = <<>>
    /\ execLog = <<>>
    /\ live = <<>>
    /\ saved = <<>>

\* new CommandQueue(config) in a process that never calls setGlobalConfig.
InitFiles(cfgs, c, files) ==
    /\ globalConfig = defaultGlobalConfig
    /\ InitQueue(cfgs, c, files)

\* new CommandQueue(config), for a configuration from cfgs used by caller c.
InitWith(cfgs, c) == InitFiles(cfgs, c, {NoFileYet})

\* A live queue without a results file.
LiveConfigs ==
    [workingDirectory : {"."}, continueOnError : BOOLEAN, dryRun : {FALSE},
     dryRunResultsFile : {NoFile}]

Init == \E c \in Callers : InitWith(LiveConfigs, c)

\* add(command, options): options fields are "undefined" when not given.
add(command, optCoe, optPipe, optPre, optPost) ==
    /\ pc = "idle"
    /\ nextId < MaxAdds
    /\ nextId' = nextId + 1
    /\ commands' = Append(commands,
                     NewInput(config, nextId + 1, command, optCoe, optPipe, optPre, optPost))
    /\ UNCHANGED <<config, results, cannedResults, fs, pc, i, lastResult,
                   caller, globalConfig, lastQueue, execLog, live, saved>>

Add ==
    /\ "add" \in Methods(caller)
    /\ \E command \in CommandTexts(caller, Len(commands) + 1),
          optCoe \in caller.coe, optPipe \in caller.pipe,
          optPre \in caller.pre, optPost \in caller.post :
           add(command, optCoe, optPipe, optPre, optPost)

\* cmd(command, options): an alias of add.
Cmd ==
    /\ "cmd" \in Methods(caller)
    /\ \E command \in CommandTexts(caller, Len(commands) + 1),
          optCoe \in caller.coe, optPipe \in caller.pipe,
          optPre \in caller.pre, optPost \in caller.post :
           add(command, optCoe, optPipe, optPre, optPost)

\* pipe(command, options), had it been add with { ...options, pipe: 'stdout' }.
Pipe_ForcesStdout ==
    /\ "pipe" \in Methods(caller)
    /\ \E command \in CommandTexts(caller, Len(commands) + 1),
          optCoe \in caller.coe, optPipe \in caller.pipe,
          optPre \in caller.pre, optPost \in caller.post :
           add(command, optCoe, "stdout", optPre, optPost)

\* pipe(command, options): add with { pipe: 'stdout', ...options }.
Pipe ==
    /\ "pipe" \in Methods(caller)
    /\ \E command \in CommandTexts(caller, Len(commands) + 1),
          optCoe \in caller.coe, optPipe \in caller.pipe,
          optPre \in caller.pre, optPost \in caller.post :
           add(command, optCoe,
               IF optPipe = "undefined" THEN "stdout" ELSE optPipe, optPre, optPost)

\* reset()
Reset ==
    /\ pc = "idle"
    /\ commands' = <<>>
    /\ UNCHANGED <<config, results, cannedResults, fs, pc, i, lastResult,
                   nextId, caller, globalConfig, lastQueue, execLog, live, saved>>

\* Mutant: run() keeps the results of the previous run.
RunStart_KeepsResults ==
    /\ pc = "idle"
    /\ lastResult' = <<>>
    /\ i' = 0
    /\ pc' = "loop"
    /\ lastQueue' = commands
    /\ execLog' = <<>>
    /\ UNCHANGED <<config, commands, results, cannedResults, fs, nextId, caller, globalConfig, live, saved>>

\* run(), entry: the result store is cleared and the loop begins.
RunStart ==
    /\ pc = "idle"
    /\ results' = <<>>
    /\ lastResult' = <<>>
    /\ i' = 0
    /\ pc' = "loop"
    /\ lastQueue' = commands
    /\ execLog' = <<>>
    /\ UNCHANGED <<config, commands, cannedResults, fs, nextId, caller, globalConfig, live, saved>>

\* Mutant: the loop does not move to the next position.
EndIteration_Stays(command, newLastResult) ==
    /\ lastResult' = <<newLastResult>>
    /\ IF Halts(command, newLastResult)
       THEN pc' = "halt" /\ i' = i
       ELSE pc' = "loop" /\ i' = i

\* The end of a loop iteration of run() that produced newLastResult: the result
\* becomes lastResult, and the loop breaks or moves to the next position.
EndIteration(command, newLastResult) ==
    /\ lastResult' = <<newLastResult>>
    /\ IF Halts(command, newLastResult)
       THEN pc' = "halt" /\ i' = i
       ELSE pc' = "loop" /\ i' = i + 1

\* Mutant: a skipped request leaves no result in the store.
RunSkip_RecordsNothing ==
    /\ pc = "loop"
    /\ i < Len(commands)
    /\ LET command == commands[i + 1] IN
         /\ shouldSkipCommand(command, lastResult)
         /\ IF preHandler(lastResult) /\ GateThrows(command, lastResult)
            THEN /\ pc' = "raised"
                 /\ UNCHANGED <<results, i, lastResult>>
            ELSE /\ results' = results
                 /\ EndIteration(command, SkippedResult(command))
    /\ UNCHANGED <<config, commands, cannedResults, fs, nextId, caller, globalConfig,
                   lastQueue, execLog, live, saved>>

\* run(), a loop iteration whose request the gate does not let through: the
\* gate throws, or it rejects the request.
RunSkip ==
    /\ pc = "loop"
    /\ i < Len(commands)
    /\ LET command == commands[i + 1] IN
         /\ shouldSkipCommand(command, lastResult)
         /\ IF preHandler(lastResult) /\ GateThrows(command, lastResult)
            THEN /\ pc' = "raised"
                 /\ UNCHANGED <<results, i, lastResult>>
            ELSE /\ results' = Append(results, SkippedResult(command))
                 /\ EndIteration(command, SkippedResult(command))
    /\ UNCHANGED <<config, commands, cannedResults, fs, nextId, caller, globalConfig,
                   lastQueue, execLog, live, saved>>

\* run(), a loop iteration whose request is deferred into the next one's pipeline.
RunPipe ==
    /\ pc = "loop"
    /\ i < Len(commands)
    /\ LET command == commands[i + 1] IN
         /\ ~shouldSkipCommand(command, lastResult)
         /\ shouldPipeCommand(commands, i + 2)
         /\ results' = Append(results, PipedResult(command, commands[i + 2]))
         /\ EndIteration(command, PipedResult(command, commands[i + 2]))
    /\ UNCHANGED <<config, commands, cannedResults, fs, nextId, caller, globalConfig,
                   lastQueue, execLog, live, saved>>

\* Mutant: the loop decides on, and hands on, the result as it was before
\* the transform.
RunExec_DecidesOnRaw ==
    /\ pc = "loop"
    /\ i < Len(commands)
    /\ LET command == commands[i + 1]
           walk == PipeChainWalk(results, i - 1, command.command, <<command.id>>)
           pipeChain == walk.text
       IN
       /\ ~shouldSkipCommand(command, lastResult)
       /\ ~shouldPipeCommand(commands, i + 2)
       /\ IF walk.thrown
          THEN /\ pc' = "raised"
               /\ UNCHANGED <<results, i, lastResult, execLog>>
          ELSE
          \E x \in exec(config, cannedResults, caller.proc, pipeChain,
                        CannedKey(command, pipeChain)) :
            /\ LET o == x.ret
                   classified == postHandler(ExecResult(command, pipeChain, o))
                   newLastResult == IF command.post # "undefined"
                                    THEN ApplyPost(command.post, classified)
                                    ELSE classified
               IN /\ results' = Append(results, newLastResult)
                  /\ EndIteration(command, classified)
            /\ execLog' = Append(execLog,
                   [cmd |-> pipeChain, stages |-> walk.stages,
                    spawned |-> Spawns(config, cannedResults, pipeChain),
                    input |-> IF Spawns(config, cannedResults, pipeChain)
                              THEN ExecInput(lastResult, command.pipe)
                              ELSE "",
                    raw |-> x.raw,
                    ret |-> x.ret])
    /\ UNCHANGED <<config, commands, cannedResults, fs, nextId, caller, globalConfig, lastQueue, live, saved>>

\* run(), a loop iteration that executes the request's compiled pipeline.
RunExec ==
    /\ pc = "loop"
    /\ i < Len(commands)
    /\ LET command == commands[i + 1]
           walk == PipeChainWalk(results, i - 1, command.command, <<command.id>>)
           pipeChain == walk.text
       IN
       /\ ~shouldSkipCommand(command, lastResult)
       /\ ~shouldPipeCommand(commands, i + 2)
       /\ IF walk.thrown
          THEN /\ pc' = "raised"
               /\ UNCHANGED <<results, i, lastResult, execLog>>
          ELSE
          \E x \in exec(config, cannedResults, caller.proc, pipeChain,
                        CannedKey(command, pipeChain)) :
            /\ LET o == x.ret
                   classified == postHandler(ExecResult(command, pipeChain, o))
                   newLastResult == IF command.post # "undefined"
                                    THEN ApplyPost(command.post, classified)
                                    ELSE classified
               IN /\ results' = Append(results, newLastResult)
                  /\ EndIteration(command, newLastResult)
            /\ execLog' = Append(execLog,
                   [cmd |-> pipeChain, stages |-> walk.stages,
                    spawned |-> Spawns(config, cannedResults, pipeChain),
                    input |-> IF Spawns(config, cannedResults, pipeChain)
                              THEN ExecInput(lastResult, command.pipe)
                              ELSE "",
                    raw |-> x.raw,
                    ret |-> x.ret])
    /\ UNCHANGED <<config, commands, cannedResults, fs, nextId, caller, globalConfig, lastQueue, live, saved>>

\* run(): the save it makes at its end raises.
SaveRaises ==
    /\ config.dryRunResultsFile # NoFile /\ ~config.dryRun
    /\ save(fs, results, TRUE).raised

\* Mutant: a dry run saves its results too.
RunFinish_SavesInDryRun ==
    /\ \/ pc = "halt"
       \/ pc = "loop" /\ i >= Len(commands)
    /\ IF config.dryRunResultsFile # NoFile
       THEN /\ fs' = save(fs, results, TRUE).file
            /\ live' = <<[queue |-> commands, results |-> results,
                          saved |-> save(fs, results, TRUE).ok]>>
       ELSE /\ fs' = fs
            /\ live' = live
    /\ IF SaveRaises
       THEN commands' = commands /\ pc' = "raised"
       ELSE commands' = <<>> /\ pc' = "idle"
    /\ i' = 0
    /\ lastResult' = <<>>
    /\ UNCHANGED <<config, results, cannedResults, nextId, caller, globalConfig, lastQueue,
                   execLog, saved>>

\* Mutant: a run that stopped early returns without saving.
RunFinish_SavesWhenComplete ==
    /\ \/ pc = "halt"
       \/ pc = "loop" /\ i >= Len(commands)
    /\ IF config.dryRunResultsFile # NoFile /\ ~config.dryRun /\ pc # "halt"
       THEN /\ fs' = save(fs, results, TRUE).file
            /\ live' = <<[queue |-> commands, results |-> results,
                          saved |-> save(fs, results, TRUE).ok]>>
       ELSE /\ fs' = fs
            /\ live' = live
    /\ IF SaveRaises
       THEN commands' = commands /\ pc' = "raised"
       ELSE commands' = <<>> /\ pc' = "idle"
    /\ i' = 0
    /\ lastResult' = <<>>
    /\ UNCHANGED <<config, results, cannedResults, nextId, caller, globalConfig, lastQueue,
                   execLog, saved>>

\* Mutant: a run that stopped early returns without emptying the queue.
RunFinish_KeepsQueueOnHalt ==
    /\ \/ pc = "halt"
       \/ pc = "loop" /\ i >= Len(commands)
    /\ IF config.dryRunResultsFile # NoFile /\ ~config.dryRun
       THEN /\ fs' = save(fs, results, TRUE).file
            /\ live' = <<[queue |-> commands, results |-> results,
                          saved |-> save(fs, results, TRUE).ok]>>
       ELSE /\ fs' = fs
            /\ live' = live
    /\ IF SaveRaises
       THEN commands' = commands /\ pc' = "raised"
       ELSE commands' = (IF pc = "halt" THEN commands ELSE <<>>) /\ pc' = "idle"
    /\ i' = 0
    /\ lastResult' = <<>>
    /\ UNCHANGED <<config, results, cannedResults, nextId, caller, globalConfig, lastQueue,
                   execLog, saved>>

\* run(), after the loop: the results are saved when a results file is
\* configured and the run is live, then reset() drains the queue.
RunFinish ==
    /\ \/ pc = "halt"
       \/ pc = "loop" /\ i >= Len(commands)
    /\ IF config.dryRunResultsFile # NoFile /\ ~config.dryRun
       THEN /\ fs' = save(fs, results, TRUE).file
            /\ live' = <<[queue |-> commands, results |-> results,
                          saved |-> save(fs, results, TRUE).ok]>>
       ELSE /\ fs' = fs
            /\ live' = live
    /\ IF SaveRaises
       THEN commands' = commands /\ pc' = "raised"
       ELSE commands' = <<>> /\ pc' = "idle"
    /\ i' = 0
    /\ lastResult' = <<>>
    /\ UNCHANGED <<config, results, cannedResults, nextId, caller, globalConfig, lastQueue,
                   execLog, saved>>

\* save(path, append), called by the caller on the results file.
Save ==
    /\ pc = "idle"
    /\ \E append \in BOOLEAN :
          /\ fs' = save(fs, results, append).file
          /\ IF save(fs, results, append).raised
             THEN pc' = "raised" /\ saved' = saved
             ELSE /\ pc' = pc
                  /\ saved' = <<[append |-> append, ok |-> save(fs, results, append).ok]>>
    /\ UNCHANGED <<config, commands, results, cannedResults, i, lastResult,
                   nextId, caller, globalConfig, lastQueue, execLog, live>>

\* The caller replays a recording: once the live run has returned, it
\* constructs a dry-run queue on the results file of the live queue and adds
\* the requests of the recorded run to it, with the same options and fresh
\* ids. The constructor throws when the file does not parse.
Replay ==
    /\ pc = "idle"
    /\ ~config.dryRun
    /\ live # <<>>
    /\ commands = <<>>
    /\ fs.exists => fs.valid
    /\ config' = [config EXCEPT !.dryRun = TRUE]
    /\ cannedResults' = LoadCanned(config', fs)
    /\ commands' = [k \in 1..Len(live[1].queue) |->
                        [live[1].queue[k] EXCEPT !.id = nextId + k]]
    /\ nextId' = nextId + Len(live[1].queue)
    /\ results' = <<>>
    /\ lastQueue' = <<>>
    /\ execLog' = <<>>
    /\ UNCHANGED <<fs, pc, i, lastResult, caller, globalConfig, live, saved>>

Next ==
    \/ Add
    \/ Cmd
    \/ Pipe
    \/ Reset
    \/ RunStart
    \/ RunSkip
    \/ RunPipe
    \/ RunExec
    \/ RunFinish

Spec == Init /\ [][Next]_vars

\* Recording and replaying queues, used by the recording callers, which also
\* call save() and replay: a live queue with a results file, on every kind of
\* file, and a dry-run queue with or without a results file, where the file is
\* absent or holds earlier recordings.
RecordingConfigs ==
    [workingDirectory : {"."}, continueOnError : {FALSE}, dryRun : {FALSE},
     dryRunResultsFile : {ResultsFile}]

DryConfigs ==
    [workingDirectory : {"."}, continueOnError : {FALSE}, dryRun : {TRUE},
     dryRunResultsFile : {NoFile, ResultsFile}]

InitRecord ==
    \E c \in RecordCallers :
        \/ InitFiles(RecordingConfigs, c, Files)
        \/ InitFiles(DryConfigs, c, {NoFileYet, OldFile})

NextRecord ==
    \/ Add
    \/ Cmd
    \/ Pipe
    \/ Reset
    \/ RunStart
    \/ RunSkip
    \/ RunPipe
    \/ RunExec
    \/ RunFinish
    \/ Save
    \/ Replay

SpecRecord == InitRecord /\ [][NextRecord]_vars

\* A recording queue, on every kind of file, used by a caller that queues one
\* text again and again, plain, gated or stdout-piped, always continuing on
\* error, and also calls save() and replays.
RepeatRecordCaller ==
    [ coe   |-> {"true"},
      pipe  |-> {"undefined", "stdout"},
      pre   |-> {"undefined", "never"},
      post  |-> {"undefined"},
      proc  |-> {ProcOk, ProcFail},
      texts |-> {"A"} ]

InitPlaceholder == InitFiles(RecordingConfigs, RepeatRecordCaller, Files)

SpecPlaceholder == InitPlaceholder /\ [][NextRecord]_vars

\* Recording queues on a file that does not exist yet, used by callers that
\* replay and pass no transforms: one queues the texts "A" and "B" in any
\* order, plain, continuing on error or not; the other queues the text "A",
\* plain, gated on the previous result or stdout-piped, continuing on error.
ReplayCallers ==
    { [ coe   |-> {"undefined", "true"},
        pipe  |-> {"undefined"},
        pre   |-> {"undefined"},
        post  |-> {"undefined"},
        proc  |-> {ProcOk, ProcFail},
        texts |-> {"A", "B"} ],
      [ coe   |-> {"true"},
        pipe  |-> {"undefined", "stdout"},
        pre   |-> {"undefined", "ifPrevOk"},
        post  |-> {"undefined"},
        proc  |-> {ProcOk, ProcFail},
        texts |-> {"A"} ] }

InitReplay == \E c \in ReplayCallers : InitFiles(RecordingConfigs, c, {NoFileYet})

\* These callers leave saving to run().
NextReplay ==
    \/ Next
    \/ Replay

SpecReplay == InitReplay /\ [][NextReplay]_vars

\* Live queues with and without a results file, which does not exist yet or
\* cannot be written, used by the caller of plain, gated and stdout-piped
\* requests. Inside run() every step is taken in the end: the loop is
\* synchronous, and spawnSync returns once the child has ended.
RunConfigs ==
    [workingDirectory : {"."}, continueOnError : BOOLEAN, dryRun : {FALSE},
     dryRunResultsFile : {NoFile, ResultsFile}]

InitTerminates == InitFiles(RunConfigs, PlaceholderCaller, {NoFileYet, ReadOnlyFile})

SpecTerminates ==
    /\ InitTerminates
    /\ [][Next]_vars
    /\ WF_vars(RunSkip)
    /\ WF_vars(RunPipe)
    /\ WF_vars(RunExec)
    /\ WF_vars(RunFinish)

\* A live queue without a results file, used by the caller whose transforms
\* return new objects.
InitRebuild == InitWith(LiveConfigs, RebuildCaller)

SpecRebuild == InitRebuild /\ [][Next]_vars

\* A live queue without a results file, used by a caller that queues the same
\* text again and again, plain, gated or stdout-piped, with or without a
\* transform, always continuing on error.
RepeatCaller ==
    [ coe   |-> {"true"},
      pipe  |-> {"undefined", "stdout"},
      pre   |-> {"undefined", "never"},
      post  |-> TransformKinds,
      proc  |-> {ProcOk, ProcFail, ProcFailOther},
      texts |-> {"A"} ]

InitRepeat == InitWith(LiveConfigs, RepeatCaller)

SpecRepeat == InitRepeat /\ [][Next]_vars

\* Callers that keep to one method and one value of the pipe option, on plain
\* and gated requests.
MethodCallers ==
    { [ coe     |-> {"undefined"},
        pipe    |-> {m},
        pre     |-> {"undefined", "never"},
        post    |-> {"undefined"},
        proc    |-> {ProcOk, ProcFail},
        methods |-> {method} ] : m \in PipeOption, method \in {"add", "cmd", "pipe"} }

InitMethod == \E c \in MethodCallers : InitWith(LiveConfigs, c)

SpecMethod == InitMethod /\ [][Next]_vars

\* A caller whose gates look at the previous result, written for undefined
\* or for null as the absence of one, on plain and stdout-piped requests with
\* or without a transform, always continuing on error.
GateCaller ==
    [ coe  |-> {"true"},
      pipe |-> {"undefined", "stdout"},
      pre  |-> {"ifPrevOk"} \cup NullGates,
      post |-> TransformKinds,
      proc |-> {ProcOk, ProcFail} ]

InitGate == InitWith(LiveConfigs, GateCaller)

SpecGate == InitGate /\ [][Next]_vars

\* Callers whose commands meet everything spawnSync can do: one queues plain
\* requests, the other gated and stdout-piped ones too, whose commands run,
\* fail to spawn or are ended by a signal.
SpawnCallers ==
    { [ coe  |-> {"undefined", "true"},
        pipe |-> {"undefined"},
        pre  |-> {"undefined"},
        post |-> {"undefined"},
        proc |-> {ProcOk, ProcFail, SpawnFailure} \cup Signalled \cup OddThrows ],
      [ coe  |-> {"undefined", "true"},
        pipe |-> {"undefined", "stdout"},
        pre  |-> {"undefined", "never"},
        post |-> {"undefined"},
        proc |-> {ProcOk, SpawnFailure, [out |-> "", err |-> "e", status |-> <<>>]} ] }

InitSpawn == \E c \in SpawnCallers : InitWith(LiveConfigs, c)

SpecSpawn == InitSpawn /\ [][Next]_vars

\* The configurations a process passes to setGlobalConfig.
GlobalConfigs ==
    { defaultGlobalConfig,
      [workingDirectory |-> ".", continueOnError |-> TRUE, dryRun |-> FALSE,
       dryRunResultsFile |-> ResultsFile],
      [workingDirectory |-> ".", continueOnError |-> FALSE, dryRun |-> TRUE,
       dryRunResultsFile |-> ResultsFile] }

\* The arguments of new CommandQueue(configOrCwd) other than a configuration:
\* no argument, the empty string and a directory.
ConstructorArgs == {"undefined", "", "/w"}

\* The configuration the constructor gives a queue built from no argument or
\* from a string, when the process-wide default configuration is g: g itself
\* for a falsy argument, g with the directory replaced otherwise.
ConfigFromGlobal(configOrCwd, g) ==
    IF configOrCwd \in {"undefined", ""}
    THEN g
    ELSE [g EXCEPT !.workingDirectory = configOrCwd]

\* setGlobalConfig(config), had queues followed the default configuration.
SetGlobalConfig_Rebinds ==
    /\ \E g \in GlobalConfigs \ {globalConfig} :
         /\ globalConfig' = g
         /\ config' = ConfigFromGlobal(config.workingDirectory, g)
    /\ UNCHANGED <<commands, results, cannedResults, fs, pc, i, lastResult,
                   nextId, caller, lastQueue, execLog, live, saved>>

\* setGlobalConfig(config): rebinds the module variable; no queue is touched.
SetGlobalConfig ==
    /\ \E g \in GlobalConfigs \ {globalConfig} : globalConfig' = g
    /\ UNCHANGED <<config, commands, results, cannedResults, fs, pc, i, lastResult,
                   nextId, caller, lastQueue, execLog, live, saved>>

\* A caller that leaves continueOnError to the configuration and queues one
\* text, plain, gated or stdout-piped.
GlobalCaller ==
    [ coe   |-> {"undefined"},
      pipe  |-> {"undefined", "stdout"},
      pre   |-> {"undefined", "never"},
      post  |-> {"undefined"},
      proc  |-> {ProcOk, ProcFail},
      texts |-> {"A"} ]

\* new CommandQueue() and new CommandQueue(directory) after the process has
\* set the default configuration; the results file is absent or holds earlier
\* recordings.
InitGlobal ==
    /\ globalConfig \in GlobalConfigs
    /\ InitQueue({ConfigFromGlobal(a, globalConfig) : a \in ConstructorArgs},
                 GlobalCaller, {NoFileYet, OldFile})

NextGlobal ==
    \/ Next
    \/ SetGlobalConfig

SpecGlobal == InitGlobal /\ [][NextGlobal]_vars
-----------------------------------------------------------------------------
(* Vocabulary of the properties. *)

\* A run() of a non-empty queue has returned (the queue it ran is lastQueue).
Ran == pc = "idle" /\ Len(lastQueue) > 0

Failed(r) == ~r.result.success

PipedAway(r) == r.piped # "none"

Executed(r) == ~r.skipped /\ ~PipedAway(r)

NoPipeMode(c) == c.pipe \in {"undefined", "none"}

\* A queue without gates, pipe modes and transforms.
PlainQueue(q) ==
    \A k \in 1..Len(q) :
        q[k].pre = "undefined" /\ q[k].post = "undefined" /\ NoPipeMode(q[k])

Least(S) == CHOOSE k \in S : \A m \in S : k <= m

\* The positions of the failed results, and of those among them whose request
\* does not continue on error.
FailedAt == {k \in 1..Len(results) : Failed(results[k])}

HaltingAt == {k \in FailedAt : ~lastQueue[k].continueOnError}

-----------------------------------------------------------------------------
(* C1 *)

\* C1 as stated: after run() of a queue without gates, pipe modes and
\* transforms, the number of results is the position of the first failed
\* request, or the number of queued requests if no request failed or every
\* request continues on error.
C1_AsStated ==
    (Ran /\ PlainQueue(lastQueue)) =>
        Len(results) =
            IF FailedAt = {} \/ (\A k \in 1..Len(lastQueue) : lastQueue[k].continueOnError)
            THEN Len(lastQueue)
            ELSE Least(FailedAt)

\* C1, amended: after run() of a queue without gates, pipe modes and
\* transforms, the number of results is the position of the first failed request
\* that does not continue on error, or the number of queued requests if there
\* is no such request.
C1_ResultCount ==
    (Ran /\ PlainQueue(lastQueue)) =>
        Len(results) =
            IF HaltingAt = {} THEN Len(lastQueue) ELSE Least(HaltingAt)

\* A plain queue of three whose first request failed and continued and whose
\* second failed and halted the run.
C1_Witness ==
    /\ Ran /\ PlainQueue(lastQueue)
    /\ Len(lastQueue) = 3 /\ Len(results) = 2
    /\ Failed(results[1]) /\ lastQueue[1].continueOnError
    /\ Failed(results[2]) /\ ~lastQueue[2].continueOnError

-----------------------------------------------------------------------------
(* C2 *)

\* C2: in every state, a failed result whose request does not continue on error
\* is the last entry of the result store and the loop has stopped: no later
\* request has been gated, executed or recorded, and exec() has been called
\* only for the executed results recorded.
C2_HaltIsLast ==
    /\ \A k \in 1..Len(results) :
          (Failed(results[k]) /\ ~lastQueue[k].continueOnError) =>
              /\ k = Len(results)
              /\ pc # "loop"
    /\ Len(execLog) = Cardinality({k \in 1..Len(results) : Executed(results[k])})

\* [ok, failing, ok]: exactly two results, and hasErrors() is true.
C2_Witness ==
    /\ Ran
    /\ Len(lastQueue) = 3 /\ Len(results) = 2
    /\ ~Failed(results[1]) /\ Executed(results[1])
    /\ Failed(results[2]) /\ Executed(results[2])
    /\ hasErrors(results)
    /\ Len(execLog) = 2

-----------------------------------------------------------------------------
(* C3 *)

\* C3 as stated: a request rejected by its gate never halts the run: when
\* run() has returned, a skipped result that is not at the end of the queue is
\* followed by the result of the next queued request.
C3_SkipNeverHalts ==
    Ran => \A k \in 1..Len(results) :
              (results[k].skipped /\ k < Len(lastQueue)) => Len(results) > k

-----------------------------------------------------------------------------
(* C4 *)

\* C4 as stated: when run() has returned, the failed result of an executed
\* request was followed by the next request whenever the request's own continueOnError or the
\* configuration's default is true.
C4_AsStated ==
    Ran => \A k \in 1..Len(results) :
              (Executed(results[k]) /\ Failed(results[k])
                 /\ (lastQueue[k].continueOnError \/ config.continueOnError)
                 /\ k < Len(lastQueue))
              => Len(results) > k

\* C4, amended: run() halts after a failed result exactly when the request's
\* own continueOnError is false, whatever the configuration's default (the
\* default only supplies the value of a request added without one): when
\* run() has returned, the run stopped at position k, before the end of the
\* queue, if and only if the result at k failed and the request at k has
\* continueOnError false.
C4_HaltPolicy ==
    Ran =>
      /\ Len(results) > 0
      /\ \A k \in 1..Len(results) :
            k < Len(lastQueue) =>
                (Len(results) = k <=>
                    (Failed(results[k]) /\ ~lastQueue[k].continueOnError))

\* Under a configuration default of true, a request with continueOnError false
\* failed and halted the run, after a failed request that continued.
C4_Witness ==
    /\ Ran
    /\ config.continueOnError
    /\ Len(lastQueue) = 3 /\ Len(results) = 2
    /\ Executed(results[1]) /\ Failed(results[1]) /\ lastQueue[1].continueOnError
    /\ Executed(results[2]) /\ Failed(results[2]) /\ ~lastQueue[2].continueOnError
-----------------------------------------------------------------------------
(* C5 *)

StagesOf(e) == {e.stages[x] : x \in 1..Len(e.stages)}

\* C5: in every state, a request whose gate answers false has a skipped result
\* with empty stdout and stderr and the outcome {false, "Command skipped"}, it
\* is not marked as piped, and its identifier is among the stages of no call
\* of exec(), its own or a later pipeline's.
C5_SkippedNeverSpawned ==
    \A k \in 1..Len(results) :
        /\ lastQueue[k].pre = "never" => results[k].skipped
        /\ results[k].skipped =>
              /\ results[k].out = "" /\ results[k].err = ""
              /\ results[k].result = [success |-> FALSE, message |-> "Command skipped"]
              /\ ~PipedAway(results[k])
              /\ \A e \in 1..Len(execLog) : results[k].id \notin StagesOf(execLog[e])

\* A gate-rejected request whose successor is piped: it is skipped, not piped
\* away, and the successor then ran alone.
C5_Witness ==
    /\ Ran
    /\ Len(lastQueue) = 2 /\ Len(results) = 2
    /\ lastQueue[1].pre = "never" /\ lastQueue[2].pipe = "stdout"
    /\ results[1].skipped /\ ~PipedAway(results[1])
    /\ Len(execLog) = 1 /\ execLog[1].cmd = "B"

-----------------------------------------------------------------------------
(* C6 *)

\* C6 as stated: when run() has returned and every result that is not skipped
\* has a successful outcome, success() is true and hasErrors() is false.
C6_SkippedNotErrors ==
    (Ran /\ \A k \in 1..Len(results) :
                ~results[k].skipped => results[k].result.success)
    => (success(results) /\ ~hasErrors(results))

-----------------------------------------------------------------------------
(* C7 *)

UnskippedAt == {k \in 1..Len(results) : ~results[k].skipped}

\* C7: in every state, first() and last() are undefined when the store is
\* empty or holds only skipped results, and otherwise are the results at the
\* least and the greatest position whose skipped flag is false (a piped-away
\* placeholder included).
C7_FirstLast ==
    IF UnskippedAt = {}
    THEN first(results) = <<>> /\ last(results) = <<>>
    ELSE /\ first(results) =
              <<results[CHOOSE k \in UnskippedAt : \A m \in UnskippedAt : k <= m]>>
         /\ last(results) =
              <<results[CHOOSE k \in UnskippedAt : \A m \in UnskippedAt : k >= m]>>
         /\ ~first(results)[1].skipped /\ ~last(results)[1].skipped

\* A store of a skipped result, a piped-away placeholder and a skipped result:
\* first() and last() are both the placeholder.
C7_Witness ==
    /\ Len(results) = 3
    /\ results[1].skipped /\ results[3].skipped
    /\ PipedAway(results[2])
    /\ first(results) = <<results[2]>>
    /\ last(results) = <<results[2]>>

-----------------------------------------------------------------------------
(* C8 *)

\* The queue built by add(A).pipe(B).
IsAddPipe(q) ==
    /\ Len(q) = 2
    /\ \A k \in 1..2 : q[k].pre = "undefined" /\ q[k].post = "undefined"
    /\ q[1].pipe = "undefined"
    /\ q[2].pipe = "stdout"

\* C8: when run() has returned for add(A).pipe(B), exec() was called once and
\* spawned "A | B"; the store holds A's placeholder (piped away, empty output,
\* outcome {true, "Piped to following command"}) and B's result, which has the
\* command text "A | B" and the output the process returned; last() is B's result.
C8_AddPipe ==
    (Ran /\ IsAddPipe(lastQueue)) =>
        /\ Len(execLog) = 1
        /\ execLog[1].cmd = "A | B"
        /\ execLog[1].spawned
        /\ Len(results) = 2
        /\ results[1].id = lastQueue[1].id
        /\ PipedAway(results[1]) /\ ~results[1].skipped
        /\ results[1].out = "" /\ results[1].err = ""
        /\ results[1].result =
              [success |-> TRUE, message |-> "Piped to following command"]
        /\ results[2].id = lastQueue[2].id
        /\ results[2].command = "A | B"
        /\ results[2].out = execLog[1].ret.out
        /\ results[2].err = execLog[1].ret.err
        /\ results[2].stat = execLog[1].ret.stat
        /\ last(results) = <<results[2]>>

\* add(A).pipe(B) has run and the pipeline succeeded with output.
C8_Witness ==
    /\ Ran /\ IsAddPipe(lastQueue)
    /\ Len(results) = 2
    /\ results[2].out = "o" /\ results[2].result.success

-----------------------------------------------------------------------------
(* C9, C10 *)

\* The join operator of each pipe mode.
JoinOp(mode) ==
    CASE mode = "stdout" -> " | "
      [] mode = "stderr" -> " 2>&1 1>/dev/null | "
      [] mode = "both"   -> " 2>&1 | "

\* texts[b] joined to texts[b + 1] by the operator of modes[b], and so on to texts[m].
RECURSIVE JoinFrom(_, _, _, _)
JoinFrom(texts, modes, b, m) ==
    IF b = m THEN texts[m]
    ELSE texts[b] \o JoinOp(modes[b]) \o JoinFrom(texts, modes, b + 1, m)

\* The first position of the maximal block of piped-away results that ends
\* right before position m (m itself when there is none).
BlockStart(m) ==
    CHOOSE b \in 1..m :
        /\ \A k \in b..(m - 1) : PipedAway(results[k])
        /\ b > 1 => ~PipedAway(results[b - 1])

\* C9: in every state, the command text of an executed result at position m is
\* the command texts of the maximal block of piped-away results ending at m - 1,
\* in queue order, joined by their pipe operators, followed by the request's
\* own text; exec() was called with that text, over exactly those stages; and
\* add(A).pipe(B).pipe(C) ran as the one invocation "A | B | C".
C9_CompiledText ==
    /\ \A m \in 1..Len(results) :
          Executed(results[m]) =>
              LET b == BlockStart(m)
                  texts == [k \in 1..m |-> IF k < m THEN results[k].command
                                           ELSE lastQueue[m].command]
                  modes == [k \in 1..m |-> results[k].piped]
              IN /\ results[m].command = JoinFrom(texts, modes, b, m)
                 /\ \E e \in 1..Len(execLog) :
                       /\ execLog[e].cmd = results[m].command
                       /\ execLog[e].stages = [x \in 1..(m - b + 1) |-> lastQueue[b + x - 1].id]
    /\ (Ran /\ Len(lastQueue) = 3
            /\ (\A k \in 1..3 : lastQueue[k].pre = "undefined")
            /\ lastQueue[2].pipe = "stdout" /\ lastQueue[3].pipe = "stdout")
       => /\ Len(execLog) = 1
          /\ execLog[1].cmd = "A | B | C"
          /\ results[3].command = "A | B | C"

\* add(A).pipe(B).pipe(C) has run.
C9_Witness ==
    /\ Ran /\ Len(results) = 3
    /\ lastQueue[1].pipe = "undefined"
    /\ results[3].command = "A | B | C"
    /\ Len(execLog) = 1

\* C10: in every state, a piped-away result records the pipe mode declared by
\* the request that consumes it, the compiled text of an executed result joins
\* each stage of its block to the next by the operator of the consuming
\* request's declared mode, and add(A).pipe(B, {pipe: 'stderr'}) compiles to
\* "A 2>&1 1>/dev/null | B".
C10_JoinOperators ==
    /\ \A k \in 1..Len(results) :
          PipedAway(results[k]) => results[k].piped = lastQueue[k + 1].pipe
    /\ \A m \in 1..Len(results) :
          Executed(results[m]) =>
              LET texts == [k \in 1..m |-> lastQueue[k].command]
                  modes == [k \in 1..m |->
                               IF k < m THEN lastQueue[k + 1].pipe ELSE "none"]
              IN results[m].command = JoinFrom(texts, modes, BlockStart(m), m)
    /\ (Len(results) = 2 /\ Executed(results[2]) /\ lastQueue[1].pre = "undefined"
            /\ lastQueue[2].pipe = "stderr")
       => results[2].command = "A 2>&1 1>/dev/null | B"

\* A chain of mixed modes has run: A's stderr into B, B's stdout and stderr into C.
C10_Witness ==
    /\ Ran /\ Len(results) = 3
    /\ lastQueue[2].pipe = "stderr" /\ lastQueue[3].pipe = "both"
    /\ results[3].command = "A 2>&1 1>/dev/null | B 2>&1 | C"

-----------------------------------------------------------------------------
(* C11: a producer whose consumer is skipped. *)

\* The requests that were piped away in front of position k, up to k - 1:
\* the producers of the chain the request at k would have consumed.
RECURSIVE ProducersOf(_, _)
ProducersOf(res, k) ==
    IF k > 1 /\ PipedAway(res[k - 1])
    THEN {k - 1} \cup ProducersOf(res, k - 1)
    ELSE {}

-----------------------------------------------------------------------------
(* C12: last() after the consumer added with pipe() was skipped. *)

\* The queue of add(A).pipe(B, {pre: () => false}).
IsAddPipeRejected(q) ==
    /\ Len(q) = 2
    /\ q[1].pre = "undefined" /\ q[1].post = "undefined" /\ q[1].pipe = "undefined"
    /\ q[2].pre = "never" /\ q[2].post = "undefined" /\ q[2].pipe = "stdout"

\* C12: after run() of add(A).pipe(B, {pre: () => false}), last() is a result
\* whose stdout is the output of a process that ran the producer A alone.
C12_ProducerOutputKept ==
    (Ran /\ IsAddPipeRejected(lastQueue)) =>
        /\ last(results) # <<>>
        /\ \E e \in 1..Len(execLog) :
              /\ execLog[e].stages = <<lastQueue[1].id>>
              /\ execLog[e].spawned
              /\ last(results)[1].out = execLog[e].ret.out

-----------------------------------------------------------------------------
(* C13, C14: dry run. *)

\* C13: in every state of a dry-run queue, no call of exec() made by a run has
\* spawned a process, whatever the queue holds and whether or not a results
\* file is configured or holds an entry for the command.
C13_DryRunNeverSpawns ==
    config.dryRun => \A e \in 1..Len(execLog) : ~execLog[e].spawned

\* A dry run with a results file has executed two requests, one whose text
\* has a canned result and one whose text has none.
C13_Witness ==
    /\ config.dryRun /\ config.dryRunResultsFile # NoFile
    /\ Ran
    /\ \E e, f \in 1..Len(execLog) :
          /\ execLog[e].cmd \in DOMAIN cannedResults
          /\ execLog[f].cmd \notin DOMAIN cannedResults
          /\ ~execLog[e].spawned /\ ~execLog[f].spawned

\* The compiled pipeline text of the request at position m of the running
\* queue: the texts of the requests piped away in front of it and its own,
\* joined by their pipe operators.
CompiledAt(m) ==
    JoinFrom([k \in 1..m |-> lastQueue[k].command],
             [k \in 1..m |-> results[k].piped], BlockStart(m), m)

\* C14: in every state of a dry-run queue, an executed request without a
\* transform has the stdout, stderr and exit status stored in the canned
\* results under its compiled pipeline text; when nothing is stored under
\* that text it has empty stdout, empty stderr, exit status 0 and a
\* successful outcome.
C14_CannedByCompiledText ==
    config.dryRun =>
        \A m \in 1..Len(results) :
            (Executed(results[m]) /\ lastQueue[m].post = "undefined") =>
                LET key == CompiledAt(m) IN
                IF key \in DOMAIN cannedResults
                THEN /\ results[m].out = cannedResults[key].out
                     /\ results[m].err = cannedResults[key].err
                     /\ results[m].stat = cannedResults[key].stat
                ELSE /\ results[m].out = "" /\ results[m].err = ""
                     /\ results[m].stat = 0
                     /\ results[m].result.success

\* A dry run of A piped into B, then C, has returned: the canned results hold
\* different entries for "A | B" and for "B", the chain got the former, and C,
\* which has no entry, got the empty successful result.
C14_Witness ==
    /\ config.dryRun /\ Ran
    /\ Len(results) = 3
    /\ PipedAway(results[1]) /\ Executed(results[2]) /\ Executed(results[3])
    /\ {"A | B", "B"} \subseteq DOMAIN cannedResults
    /\ "C" \notin DOMAIN cannedResults
    /\ cannedResults["A | B"].out # cannedResults["B"].out
    /\ results[2].out = cannedResults["A | B"].out
    /\ results[3].command = "C" /\ results[3].out = "" /\ results[3].result.success

-----------------------------------------------------------------------------
(* C15: record and replay. *)

\* Two queues hold the same requests, identifiers aside.
Equivalent(q1, q2) ==
    /\ Len(q1) = Len(q2)
    /\ \A k \in 1..Len(q1) : [q1[k] EXCEPT !.id = 0] = [q2[k] EXCEPT !.id = 0]

\* A queue has been run live and its results saved to the results file, and a
\* dry-run queue holding the same requests has then been run on that file.
Replayed ==
    /\ config.dryRun /\ Ran
    /\ live # <<>> /\ live[1].saved
    /\ Equivalent(lastQueue, live[1].queue)

\* C15: when a recorded run has been replayed, every result of the dry run has
\* the out, err and stat of a result of the live run with the same command
\* text.
C15_RoundTrip ==
    Replayed =>
        \A k \in 1..Len(results) :
            \E m \in 1..Len(live[1].results) :
                /\ live[1].results[m].command = results[k].command
                /\ live[1].results[m].out = results[k].out
                /\ live[1].results[m].err = results[k].err
                /\ live[1].results[m].stat = results[k].stat

-----------------------------------------------------------------------------
(* C16, C17: what run() leaves behind. *)

\* C16: every step in which run() returns leaves the queue empty, whether all
\* requests were executed, some were skipped or piped away, or the loop
\* stopped early on a failure.
C16_QueueEmptyAfterRun ==
    [][(pc # "idle" /\ pc' = "idle") => commands' = <<>>]_vars

\* A run of three requests has returned after it stopped at the second: the
\* first was piped away, the second failed, the third was never reached, and
\* the queue is empty.
C16_Witness ==
    /\ Ran
    /\ Len(lastQueue) = 3 /\ Len(results) = 2
    /\ PipedAway(results[1])
    /\ Executed(results[2]) /\ Failed(results[2])
    /\ commands = <<>>

\* The identifiers of the results in the store.
ResultIds == {results[k].id : k \in 1..Len(results)}

\* C17: a step that changes the result store is a step of run(); the step that
\* enters run() empties the store, and none of the requests it is about to run
\* has a result in the store it empties; the results in the store are those of
\* the requests of the latest run, in order; and a run() of an empty queue
\* returns with the store and the queue empty.
C17_StoreChangesOnlyInRun ==
    /\ [][results' # results => (pc = "loop" \/ (pc = "idle" /\ pc' = "loop"))]_vars
    /\ [][(pc = "idle" /\ pc' = "loop") =>
            /\ results' = <<>>
            /\ \A k \in 1..Len(commands) : commands[k].id \notin ResultIds]_vars
    /\ [](/\ Len(results) <= Len(lastQueue)
          /\ \A k \in 1..Len(results) : results[k].id = lastQueue[k].id)
    /\ [][(pc # "idle" /\ pc' = "idle" /\ lastQueue = <<>>) =>
            (results' = <<>> /\ commands' = <<>>)]_vars

\* A second run has returned: the store holds the result of the one request
\* queued after the first run, the third request ever added, and nothing of
\* the two requests run before.
C17_Witness ==
    /\ Ran
    /\ Len(lastQueue) = 1 /\ Len(results) = 1
    /\ results[1].id = 3
    /\ Executed(results[1])
    /\ commands = <<>>

-----------------------------------------------------------------------------
(* C18, C19, C20: what is written to the results file. *)

\* The command texts of the results res, and the last result with the text c.
TextsOf(res) == {res[k].command : k \in 1..Len(res)}

LastFor(res, c) ==
    res[CHOOSE k \in 1..Len(res) :
            /\ res[k].command = c
            /\ \A m \in (k + 1)..Len(res) : res[m].command # c]

\* The file f exists and its content parses.
Parsed(f) == f.exists /\ f.valid

\* The file f holds, under the text of every result of res, the last result
\* with that text.
Holds(f, res) ==
    /\ Parsed(f)
    /\ \A c \in TextsOf(res) : c \in DOMAIN f.entries /\ f.entries[c] = LastFor(res, c)

\* Every entry of old whose key is not the text of a result of res is in new.
Keeps(old, new, res) ==
    \A c \in DOMAIN old.entries \ TextsOf(res) :
        c \in DOMAIN new.entries /\ new.entries[c] = old.entries[c]

\* The step in which run() returns, and a queue that records its runs.
RunReturns == pc # "idle" /\ pc' = "idle"

Recording == ~config.dryRun /\ config.dryRunResultsFile # NoFile

\* The step is a call of save() by the caller with the given append argument.
SaveStep(append) ==
    /\ pc = "idle" /\ pc' = "idle"
    /\ config' = config
    /\ saved' # saved \/ fs' # fs
    /\ saved' # <<>> /\ saved'[1].append = append

\* C18 as stated: every step in which a live run() with a results file
\* returns leaves the file holding, for the text of every result, the last
\* result with that text, and the entries the file had before under other
\* keys.
C18_AsStated ==
    [][(RunReturns /\ Recording) =>
        (Holds(fs', results') /\ Keeps(fs, fs', results'))]_vars

\* C18: every step in which a live run() with a results file returns, after
\* all requests or after stopping early, leaves the file as follows. When the
\* file can be written and, if it exists, parses, the file holds for the text
\* of every result the last result with that text, keeps the entries it had
\* under other keys, and has no further key. Otherwise the file is as it was.
C18_SavedAfterLiveRun ==
    [][(RunReturns /\ Recording) =>
        IF fs.writable /\ (fs.exists => fs.valid)
        THEN /\ Holds(fs', results')
             /\ Keeps(fs, fs', results')
             /\ DOMAIN fs'.entries = DOMAIN fs.entries \cup TextsOf(results')
        ELSE fs' = fs]_vars

\* A live run on a file of earlier recordings has stopped at its failing
\* second request and returned: the file holds both results and the entry
\* "Z" it had before.
C18_Witness ==
    /\ Ran /\ Recording
    /\ saved = <<>>
    /\ live # <<>> /\ live[1].saved /\ live[1].results = results
    /\ Len(lastQueue) = 3 /\ Len(results) = 2
    /\ Failed(results[2])
    /\ Holds(fs, results)
    /\ "Z" \in DOMAIN fs.entries /\ fs.entries["Z"] = OldEntries["Z"]

C20_AsStated ==
    [][SaveStep(FALSE) =>
        (DOMAIN fs'.entries = TextsOf(results) /\ Holds(fs', results))]_vars

\* C20: every call save(path, false) does the following. When the file can be
\* written, the call returns true and leaves a file whose keys are exactly
\* the texts of the results, each holding the last result with that text.
\* When the file cannot be written, the call returns false and the file is
\* as it was.
C20_ReplaceOverwrites ==
    [][SaveStep(FALSE) =>
        IF fs.writable
        THEN /\ saved'[1].ok
             /\ DOMAIN fs'.entries = TextsOf(results)
             /\ Holds(fs', results)
        ELSE ~saved'[1].ok /\ fs' = fs]_vars

\* A dry-run queue constructed on the file of earlier recordings has run a
\* request and save(path, false) has returned true: the file holds that
\* result only, and the entry "Z" that the queue loaded from it is gone.
C20_Witness ==
    /\ pc = "idle"
    /\ saved = <<[append |-> FALSE, ok |-> TRUE]>>
    /\ Len(results) >= 1
    /\ "Z" \in DOMAIN cannedResults
    /\ DOMAIN fs.entries = TextsOf(results)
    /\ "Z" \notin DOMAIN fs.entries

-----------------------------------------------------------------------------
(* C21: save() never raises. *)

\* save(path, append) on the file f can read what it has to and write.
CanSave(f, append) == f.writable /\ ((append /\ f.exists) => f.valid)

\* C21: no call of save() raises, from the caller or from run(); a call by
\* the caller returns true exactly when the file could be read and written,
\* and then the file holds the results; it returns false otherwise, and then
\* the file is as it was; and every run() of a recording queue returns with
\* the queue drained, its save having succeeded exactly when the file could
\* be read and written.
C21_SaveNeverRaises ==
    /\ [](pc # "raised")
    /\ [][\A append \in BOOLEAN :
            SaveStep(append) =>
                /\ saved'[1].ok = CanSave(fs, append)
                /\ saved'[1].ok => Holds(fs', results)
                /\ ~saved'[1].ok => fs' = fs]_vars
    /\ [][(pc \in {"loop", "halt"} /\ pc' \notin {"loop", "halt"} /\ Recording) =>
            /\ pc' = "idle"
            /\ commands' = <<>>
            /\ live'[1].saved = CanSave(fs, TRUE)
            /\ ~live'[1].saved => fs' = fs]_vars

\* A recording queue whose file does not parse has run a request and
\* returned, its save having failed and its queue drained, and the caller's
\* save(path, true) has then returned false.
C21_Witness ==
    /\ Ran /\ Recording
    /\ fs = CorruptFile
    /\ live # <<>> /\ ~live[1].saved /\ live[1].results = results
    /\ Len(results) >= 1
    /\ commands = <<>>
    /\ saved = <<[append |-> TRUE, ok |-> FALSE]>>

-----------------------------------------------------------------------------
(* C22: run() never raises. *)

\* C22: in every state, no exception has left run(): whatever the commands
\* report, the gates answer, the pipe modes are and the transforms return, the
\* backward walk does not reach its 'Invalid pipe type' error.
C22_RunNeverRaises == pc # "raised"

-----------------------------------------------------------------------------
(* C23: the outcome classification. *)

\* C23: in every state, an executed result of a request without a transform
\* has a failed outcome exactly when its exit status is non-zero and its
\* stderr is non-empty, and its outcome message is its stderr.
C23_Classification ==
    \A k \in 1..Len(results) :
        (Executed(results[k]) /\ lastQueue[k].post = "undefined") =>
            /\ Failed(results[k]) <=> (results[k].stat # 0 /\ results[k].err # "")
            /\ results[k].result.message = results[k].err

\* A run has returned with three executed results: a zero exit with stderr
\* text and a non-zero exit with empty stderr, both successes, and a non-zero
\* exit with stderr text, a failure.
C23_Witness ==
    /\ Ran
    /\ Len(results) = 3
    /\ \A k \in 1..3 : Executed(results[k]) /\ lastQueue[k].post = "undefined"
    /\ results[1].stat = 0 /\ results[1].err # "" /\ ~Failed(results[1])
    /\ results[2].stat # 0 /\ results[2].err = "" /\ ~Failed(results[2])
    /\ results[3].stat # 0 /\ results[3].err # "" /\ Failed(results[3])

-----------------------------------------------------------------------------
(* C24: the result a transform returns. *)

\* The classification of what the process reported for the result r.
RawFailure(r) == r.stat # 0 /\ r.err # ""

\* C24: in every state, for an executed result at position k of a request
\* whose transform negates the outcome: the stored outcome is the negation of
\* the classification; once the run has returned, the run stopped at k
\* exactly when the stored outcome is a failure and the request does not
\* continue on error; and a following request gated on the success of the
\* previous result was skipped exactly when the stored outcome is a failure.
C24_TransformedResultUsed ==
    \A k \in 1..Len(results) :
        (Executed(results[k]) /\ lastQueue[k].post = "flip") =>
            /\ results[k].result.success = RawFailure(results[k])
            /\ (Ran /\ k < Len(lastQueue)) =>
                   (Len(results) = k <=>
                       (Failed(results[k]) /\ ~lastQueue[k].continueOnError))
            /\ (k < Len(results) /\ lastQueue[k + 1].pre = "ifPrevOk") =>
                   (results[k + 1].skipped <=> Failed(results[k]))

\* A run has returned with three results: the first failed in its process and
\* was rewritten to a success, so the run went on and the gate of the second
\* let it run; the second succeeded in its process and was rewritten to a
\* failure, so the gate of the third skipped it.
C24_Witness ==
    /\ Ran
    /\ Len(results) = 3
    /\ lastQueue[1].post = "flip" /\ lastQueue[2].post = "flip"
    /\ lastQueue[2].pre = "ifPrevOk" /\ lastQueue[3].pre = "ifPrevOk"
    /\ Executed(results[1]) /\ RawFailure(results[1]) /\ ~Failed(results[1])
    /\ Executed(results[2]) /\ ~RawFailure(results[2]) /\ Failed(results[2])
    /\ results[3].skipped

-----------------------------------------------------------------------------
(* C25: success(), hasErrors() and errors(). *)

\* The last failed result of res with the text c.
LastFailedFor(res, c) ==
    res[CHOOSE k \in 1..Len(res) :
            /\ res[k].command = c /\ Failed(res[k])
            /\ \A m \in (k + 1)..Len(res) : ~(res[m].command = c /\ Failed(res[m]))]

\* success() is true iff every result succeeded, hasErrors() is its negation,
\* the keys of errors() are the texts of the failed results, errors() is empty
\* iff success(), and when every result is of a request without a transform
\* that was not skipped and exited zero with empty stderr, errors() is empty
\* and success() is true.
AccessorsAgree ==
    LET errs == errors(EmptyMap, results, 1) IN
    /\ success(results) <=> \A k \in 1..Len(results) : ~Failed(results[k])
    /\ results = <<>> => success(results)
    /\ hasErrors(results) <=> ~success(results)
    /\ DOMAIN errs = {results[k].command : k \in FailedAt}
    /\ errs = EmptyMap <=> success(results)
    /\ (\A k \in 1..Len(results) :
            /\ lastQueue[k].post = "undefined"
            /\ ~results[k].skipped /\ results[k].stat = 0 /\ results[k].err = "")
       => (errs = EmptyMap /\ success(results))

\* C25 as stated: the accessors agree, and, in a store without skipped
\* results, errors() maps the text of each failed result to the outcome
\* message of that result.
C25_AsStated ==
    /\ AccessorsAgree
    /\ (\A k \in 1..Len(results) : ~results[k].skipped) =>
          \A k \in FailedAt :
              errors(EmptyMap, results, 1)[results[k].command] = results[k].result.message

\* C25: in every state, the accessors agree, and errors() maps the text of
\* each failed result to the outcome message of the last failed result with
\* that text.
C25_Accessors ==
    /\ AccessorsAgree
    /\ \A k \in FailedAt :
          errors(EmptyMap, results, 1)[results[k].command] =
              LastFailedFor(results, results[k].command).result.message

\* A run has returned with two failed results of the same text and different
\* messages, and a successful result: errors() has that one key, with the
\* message of the second.
C25_Witness ==
    /\ Ran
    /\ Len(results) = 3
    /\ \A k \in 1..3 : Executed(results[k])
    /\ Failed(results[1]) /\ Failed(results[2]) /\ ~Failed(results[3])
    /\ results[2].command = results[1].command
    /\ results[2].result.message # results[1].result.message
    /\ errors(EmptyMap, results, 1) =
          [c \in {results[1].command} |-> results[2].result.message]
    /\ hasErrors(results) /\ ~success(results)

\* The configurations c and g agree on every field but the directory.
SameButDirectory(c, g) ==
    /\ c.continueOnError = g.continueOnError
    /\ c.dryRun = g.dryRun
    /\ c.dryRunResultsFile = g.dryRunResultsFile

\* Every request queued without a continueOnError option has the default of
\* the configuration c, and every command of the run was spawned exactly when
\* c is live.
BehavesBy(c) ==
    /\ \A k \in 1..Len(commands) : commands[k].continueOnError = c.continueOnError
    /\ \A e \in 1..Len(execLog) : execLog[e].spawned = ~c.dryRun

\* C26: a queue built from no argument or from a string starts with the
\* fields of the process-wide default configuration of that moment (all but
\* the directory, for a directory string); no step, setGlobalConfig included,
\* changes its configuration; and its behaviour follows its own configuration,
\* whatever the default is by then: the continue-on-error default of its
\* requests, whether its commands are spawned, and whether run() saves the
\* results to the results file.
C26_ConfigFixedAtConstruction ==
    /\ SameButDirectory(config, globalConfig)
    /\ config.workingDirectory \in {globalConfig.workingDirectory, "/w"}
    /\ [][config' = config]_vars
    /\ [](BehavesBy(config))
    /\ [][RunReturns =>
            fs' = IF Recording THEN save(fs, results, TRUE).file ELSE fs]_vars

\* A queue built from a directory has run a request and saved the result while
\* the default configuration had become a dry-run one with another
\* continue-on-error default.
C26_Witness ==
    /\ Ran
    /\ config.workingDirectory = "/w"
    /\ Recording /\ config.continueOnError
    /\ globalConfig.dryRun /\ ~globalConfig.continueOnError
    /\ Len(execLog) > 0 /\ execLog[1].spawned
    /\ lastQueue[1].continueOnError
    /\ fs.exists /\ results[1].command \in DOMAIN fs.entries

\* The pipe mode of the requests of a caller that keeps to one method and one
\* value of the pipe option: the value, and stdout when pipe() gets none.
QueuedMode(c) ==
    LET m == CHOOSE x \in c.pipe : TRUE
    IN IF c.methods = {"pipe"} /\ m = "undefined" THEN "stdout" ELSE m

\* Every request of the run was executed standalone: no result is a
\* piped-away placeholder, and every call of exec() runs the text of one
\* request, without input.
AllStandalone ==
    /\ \A k \in 1..Len(results) : ~PipedAway(results[k])
    /\ \A e \in 1..Len(execLog) :
          /\ execLog[e].input = ""
          /\ \E k \in 1..Len(lastQueue) :
                /\ execLog[e].stages = <<lastQueue[k].id>>
                /\ execLog[e].cmd = lastQueue[k].command

\* C27: in every state, the requests a caller queues with pipe(), passing the
\* pipe option m or none, have the mode m, or stdout when none was passed,
\* exactly as the requests queued with add() or cmd() have the mode passed or
\* none; and requests queued with pipe(cmd, {pipe: 'none'}) run as those
\* queued with add(cmd) do: each is executed standalone, none is piped away.
C27_PipeIsAddWithDefault ==
    /\ \A k \in 1..Len(commands) : commands[k].pipe = QueuedMode(caller)
    /\ \A k \in 1..Len(lastQueue) : lastQueue[k].pipe = QueuedMode(caller)
    /\ NoPipeMode([pipe |-> QueuedMode(caller)]) => AllStandalone

\* A caller has queued three requests with pipe(cmd, {pipe: 'none'}) and the
\* run has returned three executed results.
C27_Witness ==
    /\ Ran
    /\ caller.methods = {"pipe"} /\ caller.pipe = {"none"}
    /\ Len(results) = 3
    /\ \A k \in 1..3 : Executed(results[k]) /\ lastQueue[k].pipe = "none"
    /\ Len(execLog) = 3

\* The request at position k has a gate that looks at the previous result.
LooksBack(k) == lastQueue[k].pre \in {"ifPrevOk", "ifNullOrOk"}

\* Inside the loop, the result handed to the next gate is the last result
\* recorded; and every request whose gate looks at the previous result was
\* skipped exactly when the result recorded before it is a failure, the first
\* request never.
GateSeesLastRecorded ==
    /\ pc = "loop" =>
          lastResult = IF i = 0 THEN <<>> ELSE <<results[i]>>
    /\ pc \in {"loop", "halt"} => Len(results) = IF pc = "halt" THEN i + 1 ELSE i
    /\ \A k \in 1..Len(results) :
          LooksBack(k) =>
              (results[k].skipped <=> (k > 1 /\ Failed(results[k - 1])))

\* C28: the gate of a request is evaluated on the result recorded for the
\* position before it, whatever its kind, and the gate of the first request
\* on the marker its declared parameter type has for the absence of a
\* result, so no gate written for that marker throws.
C28_GateSeesLastResult ==
    /\ GateSeesLastRecorded
    /\ pc # "raised"

\* C29: in every state, a piped-away placeholder has a successful outcome and
\* the run does not stop at it: while it is the last result, the loop is about
\* to handle the next queued request; so once run() has returned, every
\* piped-away result is followed by the result of the next request.
C29_PlaceholderNeverLast ==
    \A k \in 1..Len(results) :
        PipedAway(results[k]) =>
            /\ results[k].result.success
            /\ k = Len(results) => (pc = "loop" /\ i = k /\ k < Len(commands))
            /\ k < Len(results) => results[k + 1].id = lastQueue[k + 1].id

\* A run has returned in which a request that does not continue on error was
\* piped away and the pipeline it went into failed.
C29_Witness ==
    /\ Ran
    /\ Len(results) = 2
    /\ PipedAway(results[1]) /\ ~lastQueue[1].continueOnError
    /\ Executed(results[2]) /\ Failed(results[2])

\* What spawnSync did in the call e of exec().
RawOf(e) == execLog[e].raw[1]

Threw(e) == "thrown" \in DOMAIN RawOf(e)

\* The position of the request whose iteration made the call e of exec().
PositionOf(e) ==
    CHOOSE k \in 1..Len(lastQueue) :
        lastQueue[k].id = execLog[e].stages[Len(execLog[e].stages)]

\* C30: in every state of a live run, a call of exec() in which spawnSync
\* threw has returned empty stdout, the message of the Error as stderr
\* ("Unknown error" when the thrown value is no Error) and the exit status 1,
\* and a call whose child has no exit status has returned the child's output
\* with the status 0; the request's result holds what exec() returned, it is a
\* failure exactly when the status is not 0 and stderr is not empty; and the
\* run stops at a failed result exactly when its request does not continue
\* on error.
C30_SpawnFailureConverted ==
    \A e \in 1..Len(execLog) :
        execLog[e].spawned =>
            LET ret == execLog[e].ret
                k   == PositionOf(e)
            IN /\ execLog[e].raw # <<>>
               /\ Threw(e) =>
                     /\ ret.out = "" /\ ret.stat = 1
                     /\ ret.err = IF RawOf(e).thrown = <<>> THEN "Unknown error"
                                  ELSE RawOf(e).thrown[1]
               /\ (~Threw(e) /\ RawOf(e).status = <<>>) =>
                     ret = [out |-> RawOf(e).out, err |-> RawOf(e).err, stat |-> 0]
               /\ (~Threw(e) /\ RawOf(e).status # <<>>) =>
                     ret = [out |-> RawOf(e).out, err |-> RawOf(e).err,
                            stat |-> RawOf(e).status[1]]
               /\ k <= Len(results)
               /\ results[k].out = ret.out /\ results[k].err = ret.err
               /\ results[k].stat = ret.stat
               /\ Failed(results[k]) <=> (ret.stat # 0 /\ ret.err # "")
               /\ results[k].result.message = ret.err
               /\ (Failed(results[k]) /\ ~lastQueue[k].continueOnError) =>
                     (Len(results) = k /\ pc # "loop")
               /\ (Ran /\ k < Len(lastQueue) /\ Len(results) = k) =>
                     (Failed(results[k]) /\ ~lastQueue[k].continueOnError)

\* A run has returned in which the first command failed to spawn, its request
\* continuing on error, and the second, for which a value that is no Error
\* was thrown, stopped the run before the last queued request.
C30_Witness ==
    /\ Ran
    /\ Len(lastQueue) = MaxAdds /\ Len(results) = 2 /\ Len(execLog) = 2
    /\ lastQueue[1].continueOnError /\ ~lastQueue[2].continueOnError
    /\ Threw(1) /\ RawOf(1).thrown = <<"spawn failed">>
    /\ results[1].err = "spawn failed" /\ results[1].stat = 1 /\ Failed(results[1])
    /\ Threw(2) /\ RawOf(2).thrown = <<>>
    /\ results[2].err = "Unknown error" /\ Failed(results[2])

-----------------------------------------------------------------------------
(* C31: a dry run is read-only. *)

\* The store a constructor leaves for the configuration c on the file f: the
\* entries of the file when c is a dry run with a results file that exists,
\* and nothing otherwise.
LoadedFrom(c, f) ==
    IF c.dryRun /\ c.dryRunResultsFile # NoFile /\ f.exists
    THEN f.entries
    ELSE EmptyMap

\* The step belongs to add/cmd/pipe or to run(): it queues a request, or it
\* starts or ends inside run().
QueueOrRunStep ==
    \/ Len(commands') = Len(commands) + 1
    \/ pc # "idle"
    \/ pc' # "idle"

\* C31: the canned results are what the constructor loaded (the entries of
\* the file when the queue is a dry run with a results file that exists,
\* nothing otherwise), at the first construction and at every later one, and
\* no step of add/cmd/pipe or run() on a dry-run queue changes the canned
\* results or the results file.
C31_DryRunReadOnly ==
    /\ cannedResults = LoadedFrom(config, fs)
    /\ [][config' # config => cannedResults' = LoadedFrom(config', fs')]_vars
    /\ [][(config.dryRun /\ QueueOrRunStep) =>
            (cannedResults' = cannedResults /\ fs' = fs)]_vars

\* A dry-run queue on a file of earlier recordings has returned from the run
\* of a request whose text is not among them: the file and the canned results
\* are still the earlier recordings.
C31_Witness ==
    /\ Ran
    /\ config.dryRun /\ config.dryRunResultsFile # NoFile
    /\ fs = OldFile /\ cannedResults = OldEntries
    /\ Len(results) > 0
    /\ \E k \in 1..Len(results) : results[k].command \notin DOMAIN OldEntries

-----------------------------------------------------------------------------
(* C32: results are recorded in queue order. *)

\* The identifiers of the requests at the positions m..k of the queue q.
IdsOf(q, m, k) == [x \in 1..(k - m + 1) |-> q[m + x - 1].id]

\* C32: in every state, inside run() the queue is the one run() started on;
\* at the start of the iteration for the 0-based position i the store holds
\* exactly i results (one more once the loop has stopped at i); the result at
\* position k has the identifier of the k-th queued request; and the stages
\* of every compiled pipeline are the requests at consecutive positions m..k
\* of the queue, k the position of the executed request and m..k-1 the
\* positions of the piped-away results before it.
C32_ResultsInQueueOrder ==
    /\ pc \in {"loop", "halt"} => commands = lastQueue
    /\ pc = "loop" => Len(results) = i
    /\ pc = "halt" => Len(results) = i + 1
    /\ Len(results) <= Len(lastQueue)
    /\ \A k \in 1..Len(results) : results[k].id = lastQueue[k].id
    /\ \A e \in 1..Len(execLog) :
          \E k \in 1..Len(results) : \E m \in 1..k :
              /\ execLog[e].stages = IdsOf(lastQueue, m, k)
              /\ Executed(results[k])
              /\ \A x \in m..(k - 1) : PipedAway(results[x])
              /\ m > 1 => ~PipedAway(results[m - 1])

\* A run has returned whose first request was skipped and whose second was
\* piped into the third: the pipeline has the second and third as stages.
C32_Witness ==
    /\ Ran
    /\ Len(results) = 3
    /\ results[1].skipped /\ PipedAway(results[2]) /\ Executed(results[3])
    /\ Len(execLog) = 1
    /\ execLog[1].stages = <<lastQueue[2].id, lastQueue[3].id>>

-----------------------------------------------------------------------------
(* C33: the standard-input path. *)

\* C33: in every state of a live run, every call of exec() that spawned a
\* process got no standard input; and when the request it ran carries a pipe
\* mode, the result before it is absent (the request is the first), a
\* skipped placeholder or a piped-away placeholder, with empty stdout and
\* stderr.
C33_StdinPathInert ==
    \A e \in 1..Len(execLog) :
        execLog[e].spawned =>
            LET k == PositionOf(e) IN
            /\ execLog[e].input = ""
            /\ (~NoPipeMode(lastQueue[k]) /\ k > 1) =>
                  /\ results[k - 1].skipped \/ PipedAway(results[k - 1])
                  /\ results[k - 1].out = "" /\ results[k - 1].err = ""

\* A run has returned in which a process was spawned for a request with the
\* mode both, after a piped-away producer that follows an executed request
\* with output.
C33_Witness ==
    /\ Ran
    /\ Len(results) = 3
    /\ Executed(results[1]) /\ results[1].out # ""
    /\ PipedAway(results[2])
    /\ Executed(results[3]) /\ lastQueue[3].pipe = "both"
    /\ Len(execLog) = 2 /\ execLog[2].spawned /\ execLog[2].input = ""

-----------------------------------------------------------------------------
(* C34: sequential execution. *)

\* The positions of the results that are neither skipped nor piped away.
ExecutedAt == {k \in 1..Len(results) : Executed(results[k])}

\* C34: in every state of a live run, the calls of exec() made so far are as
\* many as the results that are neither skipped nor piped away, each has
\* spawned one process and returned, in the order of the positions of their
\* requests, with the result of its request stored before the next request is
\* looked at; and no request is a stage of two compiled pipelines.
C34_OneInvocationPerRequest ==
    /\ Len(execLog) = Cardinality(ExecutedAt)
    /\ \A e \in 1..Len(execLog) :
          /\ execLog[e].spawned /\ execLog[e].raw # <<>>
          /\ PositionOf(e) \in ExecutedAt
          /\ pc = "loop" => PositionOf(e) <= i
    /\ \A e, f \in 1..Len(execLog) :
          e < f =>
              /\ PositionOf(e) < PositionOf(f)
              /\ StagesOf(execLog[e]) \cap StagesOf(execLog[f]) = {}
    /\ \A e \in 1..Len(execLog) :
          Cardinality(StagesOf(execLog[e])) = Len(execLog[e].stages)

\* A run of three requests has returned after two invocations: the pipeline
\* of the first two requests, then the third request alone.
C34_Witness ==
    /\ Ran
    /\ Len(results) = 3 /\ ExecutedAt = {2, 3}
    /\ Len(execLog) = 2
    /\ execLog[1].stages = <<lastQueue[1].id, lastQueue[2].id>>
    /\ execLog[2].stages = <<lastQueue[3].id>>

-----------------------------------------------------------------------------
(* C35: placeholders are persisted. *)

Placeholder(r) == r.skipped \/ PipedAway(r)

\* The file f holds the result r under its text, with empty output and the
\* exit status 0, and a dry run of that text alone is given the same.
StoredEmpty(f, r) ==
    /\ Parsed(f)
    /\ r.command \in DOMAIN f.entries
    /\ f.entries[r.command] = r
    /\ r.out = "" /\ r.err = "" /\ r.stat = 0
    /\ DryExec(f.entries, r.command) = [out |-> "", err |-> "", stat |-> 0]

\* C35 as stated: every step in which a live run() with a results file
\* returns leaves every skipped and every piped-away result of the run in the
\* file, under its text, with empty output and the exit status 0.
C35_AsStated ==
    [][(RunReturns /\ Recording) =>
        \A k \in 1..Len(results) :
            Placeholder(results[k]) => StoredEmpty(fs', results[k])]_vars

\* C35: every step in which a live run() with a results file returns, when
\* the file can be written and, if it exists, parses, leaves in the file every
\* skipped and every piped-away result that is the last result of the run
\* with its text, under that text, with empty output and the exit status 0,
\* whatever the file held under that text before, so that a dry run of that
\* text alone is given the empty output; a placeholder followed in the run
\* by a result with the same text is replaced by that result; and when the
\* file cannot be written or does not parse it is left as it was.
C35_PlaceholdersPersisted ==
    [][(RunReturns /\ Recording) =>
        IF fs.writable /\ (fs.exists => fs.valid)
        THEN \A k \in 1..Len(results) :
                Placeholder(results[k]) =>
                    IF LastFor(results, results[k].command) = results[k]
                    THEN StoredEmpty(fs', results[k])
                    ELSE fs'.entries[results[k].command] =
                             LastFor(results, results[k].command)
        ELSE fs' = fs]_vars

\* A live run on a file of earlier recordings has returned with a piped-away
\* result and then a skipped one, both with the text "A": the entry "A",
\* which held an output before, is now the skipped placeholder.
C35_Witness ==
    /\ Ran /\ Recording
    /\ live # <<>> /\ live[1].saved /\ live[1].results = results
    /\ Len(results) = 2
    /\ PipedAway(results[1]) /\ results[2].skipped
    /\ results[1].command = "A" /\ results[2].command = "A"
    /\ OldEntries["A"].out # ""
    /\ "Z" \in DOMAIN fs.entries
    /\ fs.entries["A"] = results[2]
    /\ fs.entries["A"].out = "" /\ fs.entries["A"].stat = 0

-----------------------------------------------------------------------------
(* C36: save() on a file that does not parse. *)

\* C36: every call save(path, true) by the caller on an existing file that
\* does not parse returns false and leaves the file as it was; and no call of
\* save(), by the caller with either argument or by run() at its end, changes
\* the result store.
C36_UnparsedFileUntouched ==
    /\ [][(SaveStep(TRUE) /\ fs.exists /\ ~fs.valid) =>
            (fs' = fs /\ ~saved'[1].ok)]_vars
    /\ [][(SaveStep(TRUE) \/ SaveStep(FALSE) \/ (RunReturns /\ Recording)) =>
            results' = results]_vars

\* The caller's save(path, true) has returned false on a file that does not
\* parse, after a run that left a result in the store; the file still does
\* not parse.
C36_Witness ==
    /\ Ran
    /\ saved = <<[append |-> TRUE, ok |-> FALSE]>>
    /\ fs = CorruptFile
    /\ Len(results) > 0

-----------------------------------------------------------------------------
(* C37: the shape of a replay. *)

\* The dry run has a result for every result of the recorded run, of the same
\* kind and with the same outcome.
SameShape ==
    /\ Len(results) = Len(live[1].results)
    /\ \A k \in 1..Len(results) :
          /\ results[k].skipped = live[1].results[k].skipped
          /\ results[k].piped = live[1].results[k].piped
          /\ results[k].result = live[1].results[k].result

\* Every executed result of res has the out, err and stat of the last result
\* of res with its text, the one a file written from res holds.
RecordedAsRun(res) ==
    \A k \in 1..Len(res) :
        Executed(res[k]) =>
            LET l == LastFor(res, res[k].command)
            IN l.out = res[k].out /\ l.err = res[k].err /\ l.stat = res[k].stat

\* C37 as stated: when a recorded run of a queue without transforms, with
\* gates on the previous result only, has been replayed, the dry run has the
\* same number of results as the live run, of the same kinds and with the
\* same outcomes.
C37_AsStated ==
    Replayed => SameShape

\* C37: when a recorded run of a queue without transforms, with gates on the
\* previous result only, has been replayed, and every executed result of the
\* live run has the out, err and stat of the last result of that run with its
\* command text, the dry run has the same number of results as the live run,
\* of the same kinds and with the same outcomes.
C37_ReplayKeepsShape ==
    (Replayed /\ RecordedAsRun(live[1].results)) => SameShape

\* The replay of a recorded run of three requests has returned: the live run
\* had a failed result, a skipped one and an executed one, and the dry run
\* has the same.
C37_Witness ==
    /\ Replayed
    /\ Len(results) = 3
    /\ Executed(results[1]) /\ Failed(results[1])
    /\ results[2].skipped
    /\ Executed(results[3])
    /\ RecordedAsRun(live[1].results)
    /\ SameShape

-----------------------------------------------------------------------------
(* C38: run() terminates. *)

\* The step is a loop iteration of run().
IterationStep == pc = "loop" /\ pc' \in {"loop", "halt"}

\* C38: when every spawned process ends, a run() that has started returns;
\* every iteration handles the position after the one handled before, records
\* exactly one result and either moves on or stops the loop; the loop is left
\* after at most as many iterations as the queue has requests; and the step
\* in which run() returns saves the results when the queue records its runs
\* and leaves the queue empty.
C38_RunTerminates ==
    /\ (pc = "loop") ~> (pc = "idle")
    /\ [][IterationStep =>
            /\ i < Len(commands)
            /\ Len(results) = i
            /\ Len(results') = i + 1
            /\ results'[i + 1].id = commands[i + 1].id
            /\ i' = IF pc' = "loop" THEN i + 1 ELSE i
            /\ commands' = commands]_vars
    /\ [](pc \in {"loop", "halt"} =>
            (i <= Len(commands) /\ Len(results) <= Len(commands)))
    /\ [][RunReturns =>
            /\ commands' = <<>>
            /\ results' = results
            /\ Len(results) <= Len(commands)
            /\ fs' = IF Recording THEN save(fs, results, TRUE).file ELSE fs]_vars

\* A run of as many requests as a queue can hold has returned with a result
\* for each, the results are in the file, and the queue is empty.
C38_Witness ==
    /\ Ran
    /\ Len(lastQueue) = MaxAdds /\ Len(results) = MaxAdds
    /\ Recording /\ Holds(fs, results)
    /\ commands = <<>>
====
